---- MODULE Spec2Model ----
(***************************************************************************)
(* Fractal Geometry Engine of the fractal blockchain testbed: the          *)
(* coordinate value types (fractal_math.FractalCoordinate and              *)
(* addressing.AddressedFractalCoordinate), the string codec                *)
(* (coord_to_string / string_to_coord), the block header field that        *)
(* stores an encoded coordinate, triangle subdivision, the two resolvers,  *)
(* the centroid, the point locator and the relationship queries.           *)
(*                                                                         *)
(* The engine is a stateless library, so the state of the model is what a  *)
(* caller holds: the values it passes in and the value the last call       *)
(* returned.  Each action is one call of one library function.             *)
(*                                                                         *)
(* Values.  Every Python value the model passes around is a record with a  *)
(* field "tag" naming its type, so that a result can be compared with None *)
(* or with a raised ValueError.  A Python str is a sequence of one-        *)
(* character strings.                                                      *)
(*                                                                         *)
(* Numbers.  Cartesian coordinates are integers on a lattice: a point      *)
(* (x, y) of the model is the real point                                   *)
(*      ( x * SIDE_LENGTH / (2 * LatticeN),  y * HEIGHT / (3 * LatticeN) ) *)
(* so the Genesis Triad is (0, 2N), (-N, -N), (N, -N).  With LatticeN a    *)
(* power of two every midpoint down to MaxDepth and every centroid is a    *)
(* lattice point and the divisions by 2 and 3 are exact.  Areas are kept   *)
(* doubled (an integer).  One lattice cell is many orders of magnitude     *)
(* larger than the tolerance 1e-9, so "a difference is below the           *)
(* tolerance" is "the difference is zero".  Floating-point rounding is not *)
(* modelled.                                                               *)
(*                                                                         *)
(* Three stateful services built on the coordinates are modelled as well:  *)
(* the transaction pool (mempool.pool.TransactionPool), the mining pool    *)
(* (mining.pool_protocol.FractalMiningPool) and the Merkle tree with its   *)
(* proofs (structures.merkle).  Their state is the objects' fields; each   *)
(* action is one method call.                                              *)
(***************************************************************************)
EXTENDS Integers, Sequences, FiniteSets, TLC

VARIABLES
    call,       \* the last library call made: its name and mode
    coord,      \* the coordinate value in hand (or None)
    text,       \* the string in hand (a sequence of characters)
    result,     \* what the last call returned or raised
    header,     \* a MinimalBlockHeader (or None)
    triangle,   \* the triangle in hand (or None)
    point,              \* cartesian_to_fractal: argument point
    max_depth,          \* cartesian_to_fractal: argument max_depth
    current_triangle_vertices,  \* cartesian_to_fractal: local
    path_elements,      \* cartesian_to_fractal: local
    d,                  \* cartesian_to_fractal: iterations of the loop begun
    pc,         \* position inside the call that is modelled step by step
    args,       \* the other arguments of the call (a record)
    pq,                 \* find_path_dijkstra: the heap of (cost, coordinate)
    came_from,          \* find_path_dijkstra: predecessor of each coordinate
    cost_so_far,        \* find_path_dijkstra: cost of each coordinate reached
    _transactions,              \* TransactionPool: tx id -> Transaction
    _destination_coord_map,     \* TransactionPool: receiver -> set of tx ids
    max_pool_size,              \* TransactionPool: the size limit (or None)
    miners,                     \* FractalMiningPool: miner_id -> round weight
    current_round_shares,       \* FractalMiningPool: the shares of the round
    total_weighted_shares_this_round,   \* FractalMiningPool
    payouts,                    \* FractalMiningPool: miner_id -> total paid out
    tree_root_node,     \* the Merkle tree a caller built (or None)
    proof               \* the Merkle proof a caller was given (or None)

vars == <<call, coord, text, result, header, triangle, point, max_depth,
          current_triangle_vertices, path_elements, d, pc, args,
          pq, came_from, cost_so_far,
          _transactions, _destination_coord_map, max_pool_size,
          miners, current_round_shares, total_weighted_shares_this_round,
          payouts, tree_root_node, proof>>

-----------------------------------------------------------------------------
(* Bounds of the model *)

\* deepest coordinate enumerated exhaustively
MaxDepth == 3
\* depth of the sample coordinates whose depth prints with two decimal digits
DeepDepth == 10
\* longest raw path handed to a constructor
MaxRawLen == 3
\* longest string typed in by a caller
MaxStrLen == 4
\* most neighbours a neighbour relation handed to the path finder gives one
\* coordinate
MaxOutDegree == 3
\* deepest coordinate routed between with the engine's own neighbours
MaxRouteDepth == 2

-----------------------------------------------------------------------------
(* Python values *)

None == [tag |-> "None"]

ValueError(msg) == [tag |-> "ValueError", msg |-> msg]

IsNone(v) == v.tag = "None"

IsRaised(v) == v.tag = "ValueError"

IsCoord(v) == v.tag \in {"FractalCoordinate", "AddressedFractalCoordinate"}

PyInt(n) == [tag |-> "int", val |-> n]

PyBool(b) == [tag |-> "bool", val |-> b]

PyStrVal(s) == [tag |-> "str", val |-> s]

PyList(items) == [tag |-> "list", items |-> items]

Range(f) == {f[i] : i \in DOMAIN f}

\* all sequences over S of length at most n
RECURSIVE SeqsUpTo(_, _)
SeqsUpTo(S, n) ==
    IF n = 0 THEN {<<>>}
    ELSE LET shorter == SeqsUpTo(S, n - 1)
         IN  shorter \cup {Append(p, x) : p \in {q \in shorter : Len(q) = n - 1}, x \in S}

-----------------------------------------------------------------------------
(* fractal_math.FractalCoordinate and addressing.AddressedFractalCoordinate *)

\* variant: a constructor that validates the way the subclass does
FractalCoordinateValidating(depth, path) ==
    IF \E i \in DOMAIN path : ~(0 <= path[i] /\ path[i] <= 2)
    THEN ValueError("Path elements must be 0, 1, 2.")
    ELSE IF Len(path) # depth
    THEN ValueError("Path length must equal depth.")
    ELSE [tag |-> "FractalCoordinate", depth |-> depth, path |-> path]

\* FractalCoordinate is a bare NamedTuple: construction stores the two
\* fields and validates nothing.
FractalCoordinate(depth, path) ==
    [tag |-> "FractalCoordinate", depth |-> depth, path |-> path]

\* variant: __new__ without the length check
AddressedFractalCoordinateNoLen(depth, path) ==
    IF \E i \in DOMAIN path : ~(0 <= path[i] /\ path[i] <= 3)
    THEN ValueError("Path elements must be 0, 1, 2 (child) or 3 (void).")
    ELSE [tag |-> "AddressedFractalCoordinate", depth |-> depth, path |-> path]

\* AddressedFractalCoordinate.__new__: the digit loop runs first, then the
\* length check, then the tuple is built unchanged.
AddressedFractalCoordinate(depth, path) ==
    IF \E i \in DOMAIN path : ~(0 <= path[i] /\ path[i] <= 3)
    THEN ValueError("Path elements must be 0, 1, 2 (child) or 3 (void).")
    ELSE IF Len(path) # depth
    THEN ValueError("Path length must equal depth.")
    ELSE [tag |-> "AddressedFractalCoordinate", depth |-> depth, path |-> path]

\* NamedTuple equality is tuple equality on (depth, path); the class of the
\* two operands plays no part.
CoordEq(a, b) == a.depth = b.depth /\ a.path = b.path

is_void_path(c) == \E i \in DOMAIN c.path : c.path[i] = 3

is_solid_path(c) == ~is_void_path(c)

\* the Genesis coordinate
GenesisCoord == AddressedFractalCoordinate(0, <<>>)

\* every valid addressed coordinate of depth at most n
AddressedCoords(n) ==
    {AddressedFractalCoordinate(Len(p), p) : p \in SeqsUpTo(0..3, n)}

\* every valid solid-only coordinate of depth at most n
SolidCoords(n) ==
    {FractalCoordinate(Len(p), p) : p \in SeqsUpTo(0..2, n)}

\* sample coordinates of depth DeepDepth and DeepDepth + 1
DeepCoords ==
    {AddressedFractalCoordinate(DeepDepth + k,
                                [i \in 1..(DeepDepth + k) |-> (i + j) % 4]) :
        k \in 0..1, j \in 0..3}

-----------------------------------------------------------------------------
(* Python's str and int built-ins, as the codec uses them *)

DigitChars == <<"0", "1", "2", "3", "4", "5", "6", "7", "8", "9">>

IsDigitChar(c) == c \in Range(DigitChars)

DigitValue(c) == CHOOSE k \in 0..9 : DigitChars[k + 1] = c

\* str(n) for n >= 0
RECURSIVE NatToStr(_)
NatToStr(n) ==
    IF n < 10 THEN <<DigitChars[n + 1]>>
    ELSE NatToStr(n \div 10) \o <<DigitChars[(n % 10) + 1]>>

\* str(n) for an int n
IntToStr(n) == IF n < 0 THEN <<"-">> \o NatToStr(-n) ELSE NatToStr(n)

\* "".join(map(str, path))
RECURSIVE JoinStr(_)
JoinStr(path) ==
    IF path = <<>> THEN <<>>
    ELSE IntToStr(Head(path)) \o JoinStr(Tail(path))

\* s.strip() for the one whitespace character of the model's alphabet
RECURSIVE LStrip(_)
LStrip(s) == IF s # <<>> /\ Head(s) = " " THEN LStrip(Tail(s)) ELSE s

RECURSIVE RStrip(_)
RStrip(s) ==
    IF s # <<>> /\ s[Len(s)] = " " THEN RStrip(SubSeq(s, 1, Len(s) - 1)) ELSE s

\* the value of a non-empty sequence of decimal digits
RECURSIVE DigitsValue(_)
DigitsValue(s) ==
    IF s = <<>> THEN 0
    ELSE 10 * DigitsValue(SubSeq(s, 1, Len(s) - 1)) + DigitValue(s[Len(s)])

\* int(s): surrounding whitespace is stripped, one sign is accepted, then
\* at least one decimal digit and nothing else must follow; anything else
\* raises ValueError.  (The digit-group separator "_" and non-ASCII digits,
\* which int() also accepts, are outside the alphabet of the model.)
int(s) ==
    LET t == RStrip(LStrip(s))
        signed == t # <<>> /\ Head(t) \in {"+", "-"}
        digits == IF signed THEN Tail(t) ELSE t
    IN  IF digits = <<>> \/ \E i \in DOMAIN digits : ~IsDigitChar(digits[i])
        THEN ValueError("invalid literal for int()")
        ELSE PyInt(IF signed /\ Head(t) = "-" THEN -DigitsValue(digits)
                   ELSE DigitsValue(digits))

\* s.split(sep): the pieces of s between the occurrences of sep
RECURSIVE Split(_, _)
Split(s, sep) ==
    IF \A i \in DOMAIN s : s[i] # sep THEN <<s>>
    ELSE LET k == CHOOSE i \in DOMAIN s :
                      s[i] = sep /\ \A j \in 1..(i - 1) : s[j] # sep
         IN  <<SubSeq(s, 1, k - 1)>> \o Split(SubSeq(s, k + 1, Len(s)), sep)

\* tuple(map(int, list(path_str))): ValueError as soon as one character is
\* not an int literal
MapInt(path_str) ==
    IF \E i \in DOMAIN path_str : IsRaised(int(<<path_str[i]>>))
    THEN ValueError("invalid literal for int()")
    ELSE [tag |-> "tuple",
          val |-> [i \in DOMAIN path_str |-> int(<<path_str[i]>>).val]]

-----------------------------------------------------------------------------
(* addressing.coord_to_string and addressing.string_to_coord *)

coord_to_string(c) ==
    <<"d">> \o IntToStr(c.depth) \o <<"p">> \o JoinStr(c.path)

\* variant: the solid-only digit test is applied in both modes
StringToCoordBuildSolidOnly(depth_val, path_val, allow_void_paths) ==
    IF \E i \in DOMAIN path_val : ~(0 <= path_val[i] /\ path_val[i] <= 2)
    THEN IF allow_void_paths THEN None
         ELSE ValueError("Path contains non-solid elements")
    ELSE IF allow_void_paths
         THEN AddressedFractalCoordinate(depth_val, path_val)
         ELSE FractalCoordinate(depth_val, path_val)

\* variant: the constructor's ValueError is not caught
StringToCoordBuildUncaught(depth_val, path_val, allow_void_paths) ==
    IF allow_void_paths
    THEN AddressedFractalCoordinate(depth_val, path_val)
    ELSE IF \E i \in DOMAIN path_val : ~(0 <= path_val[i] /\ path_val[i] <= 2)
         THEN ValueError("Path contains non-solid elements")
         ELSE FractalCoordinate(depth_val, path_val)

\* the tail of string_to_coord, after depth_val and path_val are parsed
StringToCoordBuild(depth_val, path_val, allow_void_paths) ==
    IF allow_void_paths
    THEN LET made == AddressedFractalCoordinate(depth_val, path_val)
         IN  IF IsRaised(made) THEN None ELSE made
    ELSE IF \E i \in DOMAIN path_val : ~(0 <= path_val[i] /\ path_val[i] <= 2)
         THEN ValueError("Path contains non-solid elements")
         ELSE FractalCoordinate(depth_val, path_val)

string_to_coord(s, allow_void_paths) ==
    IF s = <<>> \/ Head(s) # "d" \/ (\A i \in DOMAIN s : s[i] # "p")
    THEN None
    ELSE
    LET parts == Split(s, "p")
        depth_str == Tail(parts[1])
        path_str == parts[2]
        depth_int == int(depth_str)
    IN  IF IsRaised(depth_int) THEN None
        ELSE IF depth_int.val < 0 THEN None
        ELSE IF path_str = <<>> /\ depth_int.val = 0
        THEN StringToCoordBuild(depth_int.val, <<>>, allow_void_paths)
        ELSE IF path_str = <<>> /\ depth_int.val > 0 THEN None
        ELSE LET path_tup == MapInt(path_str)
             IN  IF IsRaised(path_tup) THEN None
                 ELSE IF Len(path_tup.val) # depth_int.val THEN None
                 ELSE StringToCoordBuild(depth_int.val, path_tup.val,
                                         allow_void_paths)

-----------------------------------------------------------------------------
(* block_header.MinimalBlockHeader *)

\* create_example: the coordinate is stored as its string; the hash that
\* makes the dummy merkle root unique per coordinate is kept as the pair
\* of its prefix and its preimage.
create_example(prev_hash, c, example_timestamp) ==
    [tag |-> "MinimalBlockHeader",
     previous_block_hash |-> prev_hash,
     merkle_root |-> <<"dummy_merkle_root_", coord_to_string(c)>>,
     timestamp |-> example_timestamp,
     fractal_coord_str |-> coord_to_string(c)]

get_fractal_coordinate(h) == string_to_coord(h.fractal_coord_str, TRUE)

-----------------------------------------------------------------------------
(* fractal_math: points, the Genesis Triad, midpoint and subdivision *)

\* lattice cells per half side of the Genesis Triad
LatticeN == 2 ^ MaxDepth

CartesianPoint(x, y) == [tag |-> "CartesianPoint", x |-> x, y |-> y]

TriangleVertices(p0, p1, p2) == [tag |-> "TriangleVertices", v |-> <<p0, p1, p2>>]

\* top, bottom-left, bottom-right
GENESIS_TRIAD_VERTICES ==
    TriangleVertices(CartesianPoint(0, 2 * LatticeN),
                     CartesianPoint(-LatticeN, -LatticeN),
                     CartesianPoint(LatticeN, -LatticeN))

get_midpoint(p1, p2) ==
    CartesianPoint((p1.x + p2.x) \div 2, (p1.y + p2.y) \div 2)

\* variant: the void triangle listed in the children's orientation
subdivide_triangle_void_reordered(vertices) ==
    LET p_top == vertices.v[1]
        p_left_base == vertices.v[2]
        p_right_base == vertices.v[3]
        m_top_left == get_midpoint(p_top, p_left_base)
        m_top_right == get_midpoint(p_top, p_right_base)
        m_left_right_base == get_midpoint(p_left_base, p_right_base)
    IN  [tag |-> "tuple", children |-> <<TriangleVertices(p_top, m_top_left, m_top_right),
                            TriangleVertices(m_top_left, p_left_base, m_left_right_base),
                            TriangleVertices(m_top_right, m_left_right_base, p_right_base)>>,
         void |-> TriangleVertices(m_left_right_base, m_top_left, m_top_right)]

\* returns the list of the three children and the void triangle
subdivide_triangle(vertices) ==
    LET p_top == vertices.v[1]
        p_left_base == vertices.v[2]
        p_right_base == vertices.v[3]
        m_top_left == get_midpoint(p_top, p_left_base)
        m_top_right == get_midpoint(p_top, p_right_base)
        m_left_right_base == get_midpoint(p_left_base, p_right_base)
    IN  [tag |-> "tuple", children |-> <<TriangleVertices(p_top, m_top_left, m_top_right),
                            TriangleVertices(m_top_left, p_left_base, m_left_right_base),
                            TriangleVertices(m_top_right, m_left_right_base, p_right_base)>>,
         void |-> TriangleVertices(m_top_left, m_left_right_base, m_top_right)]

-----------------------------------------------------------------------------
(* fractal_math.get_triangle_for_fractal_coord (the solid-only resolver),
   geometry_validator.get_vertices_for_addressed_coord (the addressed
   resolver), fractal_math.fractal_to_cartesian (the centroid) *)

\* the loop "for i in range(coord.depth)" from iteration i on
RECURSIVE SolidDescend(_, _, _)
SolidDescend(c, i, current_triangle) ==
    IF i >= c.depth THEN current_triangle
    ELSE IF i >= Len(c.path) THEN None
    ELSE LET child_index == c.path[i + 1]
         IN  IF ~(0 <= child_index /\ child_index <= 2) THEN None
             ELSE SolidDescend(c, i + 1,
                      subdivide_triangle(current_triangle).children[child_index + 1])

\* variant of the loop: the digit 3 selects the central void
RECURSIVE SolidDescendThroughVoids(_, _, _)
SolidDescendThroughVoids(c, i, current_triangle) ==
    IF i >= c.depth THEN current_triangle
    ELSE IF i >= Len(c.path) THEN None
    ELSE LET child_index == c.path[i + 1]
         IN  IF ~(0 <= child_index /\ child_index <= 3) THEN None
             ELSE SolidDescendThroughVoids(c, i + 1,
                      IF child_index = 3
                      THEN subdivide_triangle(current_triangle).void
                      ELSE subdivide_triangle(current_triangle).children[child_index + 1])

\* variant: the solid resolver follows the void digit into the central void
get_triangle_for_fractal_coord_through_voids(c) ==
    IF c.depth < 0 THEN None
    ELSE IF c.depth = 0
    THEN (IF c.path = <<>> THEN GENESIS_TRIAD_VERTICES ELSE None)
    ELSE SolidDescendThroughVoids(c, 0, GENESIS_TRIAD_VERTICES)

get_triangle_for_fractal_coord(c) ==
    IF c.depth < 0 THEN None
    ELSE IF c.depth = 0
    THEN (IF c.path = <<>> THEN GENESIS_TRIAD_VERTICES ELSE None)
    ELSE SolidDescend(c, 0, GENESIS_TRIAD_VERTICES)

is_valid_fractal_coordinate(c) ==
    IF c.depth < 0 THEN FALSE
    ELSE IF Len(c.path) # c.depth THEN FALSE
    ELSE IF \E i \in DOMAIN c.path : ~(0 <= c.path[i] /\ c.path[i] <= 2) THEN FALSE
    ELSE ~IsNone(get_triangle_for_fractal_coord(c))

\* the loop "for i in range(coord.depth)" from iteration i on
RECURSIVE AddressedDescend(_, _, _)
AddressedDescend(c, i, current_triangle_v) ==
    IF i >= c.depth THEN current_triangle_v
    ELSE IF i >= Len(c.path) THEN None
    ELSE LET path_element == c.path[i + 1]
             sub == subdivide_triangle(current_triangle_v)
         IN  IF 0 <= path_element /\ path_element <= 2
             THEN AddressedDescend(c, i + 1, sub.children[path_element + 1])
             ELSE IF path_element = 3
             THEN AddressedDescend(c, i + 1, sub.void)
             ELSE None

\* variant: the addressed resolver refuses the void digit as the solid one does
get_vertices_for_addressed_coord_solid_only(c) ==
    IF c.depth = 0 THEN GENESIS_TRIAD_VERTICES
    ELSE SolidDescend(c, 0, GENESIS_TRIAD_VERTICES)

get_vertices_for_addressed_coord(c) ==
    IF c.depth = 0 THEN GENESIS_TRIAD_VERTICES
    ELSE AddressedDescend(c, 0, GENESIS_TRIAD_VERTICES)

\* variant: the centroid takes its triangle from the addressed resolver
fractal_to_cartesian_addressed(c) ==
    LET triangle_vertices == get_vertices_for_addressed_coord(c)
    IN  IF IsNone(triangle_vertices) THEN None
        ELSE LET p1 == triangle_vertices.v[1]
                 p2 == triangle_vertices.v[2]
                 p3 == triangle_vertices.v[3]
             IN  CartesianPoint((p1.x + p2.x + p3.x) \div 3,
                                (p1.y + p2.y + p3.y) \div 3)

fractal_to_cartesian(c) ==
    LET triangle_vertices == get_triangle_for_fractal_coord(c)
    IN  IF IsNone(triangle_vertices) THEN None
        ELSE LET p1 == triangle_vertices.v[1]
                 p2 == triangle_vertices.v[2]
                 p3 == triangle_vertices.v[3]
             IN  CartesianPoint((p1.x + p2.x + p3.x) \div 3,
                                (p1.y + p2.y + p3.y) \div 3)

-----------------------------------------------------------------------------
(* fractal_math.cartesian_to_fractal: the point locator *)

Abs(n) == IF n < 0 THEN -n ELSE n

\* a non-negative lattice quantity is below the tolerance iff it is zero
BelowTolerance(n) == n < 1

\* twice the area (the code halves the same determinant)
get_triangle_area(p1, p2, p3) ==
    Abs(p1.x * (p2.y - p3.y) + p2.x * (p3.y - p1.y) + p3.x * (p1.y - p2.y))

\* variant: the test accepts the whole bounding box of the triangle
point_in_triangle_bounding_box(pt, v1, v2, v3) ==
    LET xs == {v1.x, v2.x, v3.x}
        ys == {v1.y, v2.y, v3.y}
    IN  /\ \E a \in xs : a <= pt.x
        /\ \E a \in xs : pt.x <= a
        /\ \E b \in ys : b <= pt.y
        /\ \E b \in ys : pt.y <= b

\* area-sum test; a degenerate triangle contains nothing
point_in_triangle(pt, v1, v2, v3) ==
    LET area_total == get_triangle_area(v1, v2, v3)
    IN  IF BelowTolerance(area_total) THEN FALSE
        ELSE BelowTolerance(Abs((get_triangle_area(pt, v1, v2)
                                 + get_triangle_area(pt, v2, v3)
                                 + get_triangle_area(pt, v3, v1)) - area_total))

InTriangle(pt, t) == point_in_triangle(pt, t.v[1], t.v[2], t.v[3])

\* the digit no iteration appends
NoMatch == -1

\* variant: the void is tested before the solid children
LocateDigitVoidFirst(pt, current) ==
    LET sub == subdivide_triangle(current)
    IN  IF InTriangle(pt, sub.void) THEN 3
        ELSE IF InTriangle(pt, sub.children[1]) THEN 0
        ELSE IF InTriangle(pt, sub.children[2]) THEN 1
        ELSE IF InTriangle(pt, sub.children[3]) THEN 2
        ELSE NoMatch

\* variant: the index appended for a solid child is counted from the far end
LocateDigitReversed(pt, current) ==
    LET sub == subdivide_triangle(current)
    IN  IF InTriangle(pt, sub.children[1]) THEN 2
        ELSE IF InTriangle(pt, sub.children[2]) THEN 1
        ELSE IF InTriangle(pt, sub.children[3]) THEN 0
        ELSE IF InTriangle(pt, sub.void) THEN 3
        ELSE NoMatch

\* one iteration of "for d in range(max_depth)": the solid children are
\* tested in list order and the first hit breaks the inner loop; the void
\* is tested only when no child matched
LocateDigit(pt, current) ==
    LET sub == subdivide_triangle(current)
    IN  IF InTriangle(pt, sub.children[1]) THEN 0
        ELSE IF InTriangle(pt, sub.children[2]) THEN 1
        ELSE IF InTriangle(pt, sub.children[3]) THEN 2
        ELSE IF InTriangle(pt, sub.void) THEN 3
        ELSE NoMatch

\* variant: after a solid digit the loop moves to the next child over
LocateRegionNextChild(current, digit) ==
    IF digit = 3 THEN subdivide_triangle(current).void
    ELSE subdivide_triangle(current).children[((digit + 1) % 3) + 1]

\* the region the loop moves to after appending digit
LocateRegion(current, digit) ==
    IF digit = 3 THEN subdivide_triangle(current).void
    ELSE subdivide_triangle(current).children[digit + 1]

\* variant: the last iteration the bound allows tests the void first
RECURSIVE LocateLoopLastVoidFirst(_, _, _, _, _)
LocateLoopLastVoidFirst(pt, maxd, iter, current, elems) ==
    IF iter >= maxd THEN elems
    ELSE LET digit == IF iter = maxd - 1
                      THEN LocateDigitVoidFirst(pt, current)
                      ELSE LocateDigit(pt, current)
         IN  IF digit = NoMatch THEN elems
             ELSE LocateLoopLastVoidFirst(pt, maxd, iter + 1,
                                          LocateRegion(current, digit),
                                          Append(elems, digit))

\* the loop from iteration iter on, as one computation
RECURSIVE LocateLoop(_, _, _, _, _)
LocateLoop(pt, maxd, iter, current, elems) ==
    IF iter >= maxd THEN elems
    ELSE LET digit == LocateDigit(pt, current)
         IN  IF digit = NoMatch THEN elems
             ELSE LocateLoop(pt, maxd, iter + 1, LocateRegion(current, digit),
                             Append(elems, digit))

cartesian_to_fractal(pt, maxd) ==
    IF ~InTriangle(pt, GENESIS_TRIAD_VERTICES) THEN None
    ELSE LET elems == LocateLoop(pt, maxd, 0, GENESIS_TRIAD_VERTICES, <<>>)
         IN  AddressedFractalCoordinate(Len(elems), elems)

-----------------------------------------------------------------------------
(* fractal_math.get_parent / get_children / get_siblings and
   geometry_validator.get_neighbors *)

\* path[:-1]
DropLast(path) == SubSeq(path, 1, Len(path) - 1)

\* variant: the parent keeps the child's depth
get_parent_same_depth(c) ==
    IF c.depth = 0 THEN None
    ELSE IF c.path = <<>> \/ Len(c.path) # c.depth THEN None
    ELSE FractalCoordinate(c.depth, DropLast(c.path))

\* variant: the parent drops the first digit instead of the last
get_parent_drop_first(c) ==
    IF c.depth = 0 THEN None
    ELSE IF c.path = <<>> \/ Len(c.path) # c.depth THEN None
    ELSE FractalCoordinate(c.depth - 1, Tail(c.path))

get_parent(c) ==
    IF c.depth = 0 THEN None
    ELSE IF c.path = <<>> \/ Len(c.path) # c.depth THEN None
    ELSE FractalCoordinate(c.depth - 1, DropLast(c.path))

\* variant: the void digit is appended as well
get_children_with_void(c, max_depth_limit) ==
    IF ~IsNone(max_depth_limit) /\ c.depth >= max_depth_limit.val THEN <<>>
    ELSE [i \in 1..4 |-> FractalCoordinate(c.depth + 1, Append(c.path, i - 1))]

\* max_depth_limit is None or an int
get_children(c, max_depth_limit) ==
    IF ~IsNone(max_depth_limit) /\ c.depth >= max_depth_limit.val THEN <<>>
    ELSE [i \in 1..3 |-> FractalCoordinate(c.depth + 1, Append(c.path, i - 1))]

\* variant: the coordinate's own digit is not skipped
get_siblings_with_self(c) ==
    IF c.depth = 0 THEN <<>>
    ELSE LET parent == get_parent(c)
         IN  IF IsNone(parent) THEN <<>>
             ELSE [k \in 1..3 |->
                      FractalCoordinate(c.depth, Append(parent.path, k - 1))]

get_siblings(c) ==
    IF c.depth = 0 THEN <<>>
    ELSE LET parent == get_parent(c)
         IN  IF IsNone(parent) THEN <<>>
             ELSE LET last_digit_of_coord == c.path[Len(c.path)]
                      digits == SelectSeq(<<0, 1, 2>>,
                                          LAMBDA i : i # last_digit_of_coord)
                  IN  [k \in DOMAIN digits |->
                          FractalCoordinate(c.depth, Append(parent.path, digits[k]))]

\* variant: only the solid digits are tried
get_neighbors_solid_only(c) ==
    IF c.depth = 0 THEN {}
    ELSE LET parent_path == DropLast(c.path)
             current_child_idx == c.path[Len(c.path)]
             tried == {AddressedFractalCoordinate(c.depth, Append(parent_path, i)) :
                          i \in (0..2) \ {current_child_idx}}
         IN  {n \in tried : ~IsRaised(n)}

\* variant: every other coordinate of the same depth is a neighbour
get_neighbors_any_same_depth(c) ==
    IF c.depth = 0 THEN {}
    ELSE {AddressedFractalCoordinate(c.depth, p) :
             p \in {q \in SeqsUpTo(0..3, c.depth) : Len(q) = c.depth /\ q # c.path}}

\* the result is list(set): its elements, in no order the code fixes
get_neighbors(c) ==
    IF c.depth = 0 THEN {}
    ELSE LET parent_path == DropLast(c.path)
             current_child_idx == c.path[Len(c.path)]
             tried == {AddressedFractalCoordinate(c.depth, Append(parent_path, i)) :
                          i \in (0..3) \ {current_child_idx}}
         IN  {n \in tried : ~IsRaised(n)}

-----------------------------------------------------------------------------
(* fractal_math.distance_sq / points_are_close / is_point_on_line_segment and
   geometry_validator.is_on_boundary *)

\* On the lattice one unit of y is 1/sqrt(3) of one unit of x, so the
\* Euclidean products are those of (3 * dx, dy) up to one positive factor,
\* which no comparison with zero or between two of them depends on.
distance_sq(p1, p2) ==
    3 * (p1.x - p2.x) * (p1.x - p2.x) + (p1.y - p2.y) * (p1.y - p2.y)

points_are_close(p1, p2) == BelowTolerance(distance_sq(p1, p2))

is_point_on_line_segment(p, a, b) ==
    IF points_are_close(a, b) THEN points_are_close(p, a)
    ELSE LET cross_product ==
                 (p.y - a.y) * (b.x - a.x) - (p.x - a.x) * (b.y - a.y)
             dot_product_pa_ba ==
                 3 * (p.x - a.x) * (b.x - a.x) + (p.y - a.y) * (b.y - a.y)
             squared_length_ab == distance_sq(a, b)
         IN  IF ~BelowTolerance(Abs(cross_product)) THEN FALSE
             ELSE IF dot_product_pa_ba < 0 THEN FALSE
             ELSE IF dot_product_pa_ba > squared_length_ab THEN FALSE
             ELSE TRUE

\* step 4: some vertex of the region is a vertex of the Genesis Triad
SharesGenesisVertex(coord_vertices) ==
    \E i \in 1..3, j \in 1..3 :
        points_are_close(coord_vertices.v[i], GENESIS_TRIAD_VERTICES.v[j])

\* step 5: some edge of the region lies on an edge of the Genesis Triad
SharesGenesisEdge(coord_vertices) ==
    \E i \in 1..3, j \in 1..3 :
        LET ce_p1 == coord_vertices.v[i]
            ce_p2 == coord_vertices.v[(i % 3) + 1]
            ge_p1 == GENESIS_TRIAD_VERTICES.v[j]
            ge_p2 == GENESIS_TRIAD_VERTICES.v[(j % 3) + 1]
        IN  /\ is_point_on_line_segment(ce_p1, ge_p1, ge_p2)
            /\ is_point_on_line_segment(ce_p2, ge_p1, ge_p2)
            /\ ~points_are_close(ce_p1, ce_p2)

\* the geometric part of is_on_boundary, from "1. Handle base cases" on
OnBoundaryGeometric(c, maxd) ==
    IF ~is_solid_path(c) THEN PyBool(FALSE)
    ELSE IF c.depth # maxd THEN PyBool(FALSE)
    ELSE IF c.depth = 0 THEN PyBool(TRUE)
    ELSE LET coord_vertices == get_vertices_for_addressed_coord(c)
         IN  IF IsNone(coord_vertices) THEN PyBool(FALSE)
             ELSE IF SharesGenesisVertex(coord_vertices) THEN PyBool(TRUE)
             ELSE IF SharesGenesisEdge(coord_vertices) THEN PyBool(TRUE)
             ELSE PyBool(FALSE)

\* variant: the boundary test stops after the vertex coincidence check
is_on_boundary_vertices_only(c, maxd) ==
    IF ~is_solid_path(c) THEN PyBool(FALSE)
    ELSE IF c.depth # maxd THEN PyBool(FALSE)
    ELSE IF c.depth = 0 THEN PyBool(TRUE)
    ELSE PyBool(SharesGenesisVertex(get_vertices_for_addressed_coord(c)))

\* the early returns kept from the first heuristic come first: void path,
\* depth below max_depth, Genesis at max_depth 0, then the path of one
\* repeated solid digit, which returns True before depth is compared with
\* max_depth for equality; then the debugging return, then the geometric part
is_on_boundary(c, maxd) ==
    IF ~is_solid_path(c) THEN PyBool(FALSE)
    ELSE IF c.depth < maxd THEN PyBool(FALSE)
    ELSE IF c.depth = 0 /\ maxd = 0 THEN PyBool(TRUE)
    ELSE IF /\ c.depth > 0
            /\ \A i \in DOMAIN c.path : c.path[i] = c.path[1]
            /\ c.path[1] \in {0, 1, 2}
    THEN PyBool(TRUE)
    ELSE IF c.depth = 1 /\ c.path = <<0>> /\ maxd = 0
    THEN PyStrVal(<<"DEBUG_FAILING_CASE_REACHED">>)
    ELSE OnBoundaryGeometric(c, maxd)

-----------------------------------------------------------------------------
(* routing.path_finder: get_edge_cost and the pieces of find_path_dijkstra.
   The neighbour function is an argument of the model (the module-level name
   get_neighbors the code calls can be rebound): a function from coordinates
   to the set of coordinates it lists.  The order of the list plays no part,
   each neighbour being relaxed against the cost of current_coord alone. *)

\* a uniform cost of 1.0 per hop
get_edge_cost(coord1, coord2) == 1

\* tuple comparison a < b, element by element, a proper prefix being smaller
RECURSIVE TupleLess(_, _)
TupleLess(a, b) ==
    IF b = <<>> THEN FALSE
    ELSE IF a = <<>> THEN TRUE
    ELSE IF Head(a) # Head(b) THEN Head(a) < Head(b)
    ELSE TupleLess(Tail(a), Tail(b))

\* the order of two heap entries (cost, coordinate): by cost, then by the
\* coordinate as the tuple (depth, path)
EntryLess(e1, e2) ==
    \/ e1.cost < e2.cost
    \/ /\ e1.cost = e2.cost
       /\ \/ e1.coord.depth < e2.coord.depth
          \/ /\ e1.coord.depth = e2.coord.depth
             /\ TupleLess(e1.coord.path, e2.coord.path)

\* heapq.heappop: the smallest entry of a non-empty heap
heappop(heap) == CHOOSE e \in heap : \A o \in heap \ {e} : EntryLess(e, o)

\* dict.get(key): None for a key that is absent
DictGet(dict, key) == IF key \in DOMAIN dict THEN dict[key] ELSE None

\* the path rebuilt from came_from, reversed into start -> end order
RECURSIVE ReconstructPath(_, _)
ReconstructPath(from, temp_coord) ==
    IF IsNone(temp_coord) THEN <<>>
    ELSE Append(ReconstructPath(from, DictGet(from, temp_coord)), temp_coord)

\* variant: void neighbours are relaxed like any other
RoutableThroughVoids(neighbor_coord, max_depth_for_pathfinding) ==
    ~(/\ ~IsNone(max_depth_for_pathfinding)
      /\ neighbor_coord.depth > max_depth_for_pathfinding.val)

\* the two "continue" tests at the head of the neighbour loop
Routable(neighbor_coord, max_depth_for_pathfinding) ==
    /\ ~is_void_path(neighbor_coord)
    /\ ~(/\ ~IsNone(max_depth_for_pathfinding)
         /\ neighbor_coord.depth > max_depth_for_pathfinding.val)

\* new_cost for the step from current_coord to neighbor_coord
NewCost(current_coord, neighbor_coord, costs) ==
    costs[current_coord] + get_edge_cost(current_coord, neighbor_coord)

\* the neighbours of current_coord whose cost the loop body lowers or sets
Relaxed(current_coord, neighbors, limit, costs) ==
    {n \in neighbors :
        /\ Routable(n, limit)
        /\ \/ n \notin DOMAIN costs
           \/ NewCost(current_coord, n, costs) < costs[n]}

\* a dict after dict[k] = items[k] for every key k of items
DictSet(dict, items) ==
    [k \in (DOMAIN dict) \cup (DOMAIN items) |->
        IF k \in DOMAIN items THEN items[k] ELSE dict[k]]

-----------------------------------------------------------------------------
(* What a caller holds when it holds nothing *)

NoArgs == [tag |-> "args"]

IdleLocate ==
    /\ point = None
    /\ max_depth = 0
    /\ current_triangle_vertices = None
    /\ path_elements = <<>>
    /\ d = 0
    /\ pc = "idle"

locateVars == <<point, max_depth, current_triangle_vertices, path_elements, d, pc>>

\* a function with the empty domain: an empty dict
EmptyDict == [x \in {} |-> None]

IdleRoute ==
    /\ pq = {}
    /\ came_from = EmptyDict
    /\ cost_so_far = EmptyDict

routeVars == <<pq, came_from, cost_so_far>>

\* no transaction pool, no mining pool and no Merkle tree is in use
IdleServices ==
    /\ _transactions = EmptyDict
    /\ _destination_coord_map = EmptyDict
    /\ max_pool_size = None
    /\ miners = EmptyDict
    /\ current_round_shares = <<>>
    /\ total_weighted_shares_this_round = None
    /\ payouts = EmptyDict
    /\ tree_root_node = None
    /\ proof = None

poolVars == <<_transactions, _destination_coord_map, max_pool_size>>

miningVars == <<miners, current_round_shares, total_weighted_shares_this_round,
                payouts>>

merkleVars == <<tree_root_node, proof>>

serviceVars == <<poolVars, miningVars, merkleVars>>

-----------------------------------------------------------------------------
(* SpecCtor: a caller constructs a coordinate from a raw depth and path *)

RawDepths == (-1)..(MaxRawLen + 1)

RawDigits == (-1)..4

RawPaths == SeqsUpTo(RawDigits, MaxRawLen)

InitCtor ==
    /\ call = "start"
    /\ args \in {[tag |-> "args", depth |-> dp, path |-> p] :
                    dp \in RawDepths, p \in RawPaths}
    /\ coord = None
    /\ text = <<>>
    /\ result = None
    /\ header = None
    /\ triangle = None
    /\ IdleLocate
    /\ IdleRoute
    /\ IdleServices

ConstructAddressed ==
    /\ call = "start"
    /\ result' = AddressedFractalCoordinate(args.depth, args.path)
    /\ call' = "AddressedFractalCoordinate"
    /\ UNCHANGED <<coord, text, header, triangle, args, locateVars, routeVars,
                   serviceVars>>

ConstructFractal ==
    /\ call = "start"
    /\ result' = FractalCoordinate(args.depth, args.path)
    /\ call' = "FractalCoordinate"
    /\ UNCHANGED <<coord, text, header, triangle, args, locateVars, routeVars,
                   serviceVars>>

\* is_valid_fractal_coordinate on the value just constructed
ValidateFractal ==
    /\ call = "FractalCoordinate"
    /\ IsCoord(result)
    /\ coord' = result
    /\ result' = PyBool(is_valid_fractal_coordinate(result))
    /\ call' = "is_valid_fractal_coordinate"
    /\ UNCHANGED <<text, header, triangle, args, locateVars, routeVars,
                   serviceVars>>

NextCtor == ConstructAddressed \/ ConstructFractal \/ ValidateFractal

SpecCtor == InitCtor /\ [][NextCtor]_vars

-----------------------------------------------------------------------------
(* SpecCodec: a caller encodes a coordinate and decodes it again, directly
   or through a block header, or decodes a string it was given *)

Alphabet == {"d", "p", "0", "1", "2", "3", "4", "-", "+", " ", "x"}

TypedStrings == SeqsUpTo(Alphabet, MaxStrLen)

CodecCoords == AddressedCoords(MaxDepth) \cup SolidCoords(MaxDepth) \cup DeepCoords

InitCodec ==
    /\ \/ /\ call = "start_encode"
          /\ coord \in CodecCoords
          /\ text = <<>>
       \/ /\ call = "start_decode"
          /\ coord = None
          /\ text \in TypedStrings
    /\ args = NoArgs
    /\ result = None
    /\ header = None
    /\ triangle = None
    /\ IdleLocate
    /\ IdleRoute
    /\ IdleServices

Encode ==
    /\ call = "start_encode"
    /\ text' = coord_to_string(coord)
    /\ result' = PyStrVal(text')
    /\ call' = "coord_to_string"
    /\ UNCHANGED <<coord, header, triangle, args, locateVars, routeVars,
                   serviceVars>>

\* string_to_coord on the string in hand: one typed in, or one just encoded
Decode ==
    /\ call \in {"start_decode", "coord_to_string"}
    /\ \E allow_void_paths \in BOOLEAN :
          /\ result' = string_to_coord(text, allow_void_paths)
          /\ args' = [tag |-> "args", allow_void_paths |-> allow_void_paths]
    /\ call' = "string_to_coord"
    /\ UNCHANGED <<coord, text, header, triangle, locateVars, routeVars,
                   serviceVars>>

StoreInHeader ==
    /\ call = "start_encode"
    /\ header' = create_example("0000abcdef", coord, 1678886400)
    /\ call' = "create_example"
    /\ UNCHANGED <<coord, text, result, triangle, args, locateVars, routeVars,
                   serviceVars>>

ReadFromHeader ==
    /\ call = "create_example"
    /\ result' = get_fractal_coordinate(header)
    /\ call' = "get_fractal_coordinate"
    /\ UNCHANGED <<coord, text, header, triangle, args, locateVars, routeVars,
                   serviceVars>>

NextCodec == Encode \/ Decode \/ StoreInHeader \/ ReadFromHeader

SpecCodec == InitCodec /\ [][NextCodec]_vars

-----------------------------------------------------------------------------
(* SpecResolve: a caller subdivides a triangle, or resolves a coordinate to
   its triangle or to its centroid *)

\* the points of a small grid whose midpoints are lattice points
GridPoints == {CartesianPoint(2 * i, 2 * j) : i \in (-1)..1, j \in (-1)..1}

\* the proper (non-collinear) triangles over the grid, in every vertex order
GridTriangles ==
    {TriangleVertices(a, b, c) : a \in GridPoints, b \in GridPoints, c \in GridPoints}
        \ {t \in {TriangleVertices(a, b, c) :
                      a \in GridPoints, b \in GridPoints, c \in GridPoints} :
               get_triangle_area(t.v[1], t.v[2], t.v[3]) = 0}

\* the regions of the fractal that can be subdivided on the lattice
FractalTriangles ==
    {AddressedDescend(c, 0, GENESIS_TRIAD_VERTICES) : c \in AddressedCoords(MaxDepth - 1)}

InitResolve ==
    /\ \/ /\ call = "start_subdivide"
          /\ triangle \in GridTriangles \cup FractalTriangles
          /\ coord = None
       \/ /\ call = "start_resolve"
          /\ triangle = None
          /\ coord \in AddressedCoords(MaxDepth) \cup SolidCoords(MaxDepth)
    /\ args = NoArgs
    /\ text = <<>>
    /\ result = None
    /\ header = None
    /\ IdleLocate
    /\ IdleRoute
    /\ IdleServices

Subdivide ==
    /\ call = "start_subdivide"
    /\ result' = subdivide_triangle(triangle)
    /\ call' = "subdivide_triangle"
    /\ UNCHANGED <<coord, text, header, triangle, args, locateVars, routeVars,
                   serviceVars>>

ResolveAddressed ==
    /\ call = "start_resolve"
    /\ result' = get_vertices_for_addressed_coord(coord)
    /\ call' = "get_vertices_for_addressed_coord"
    /\ UNCHANGED <<coord, text, header, triangle, args, locateVars, routeVars,
                   serviceVars>>

ResolveSolid ==
    /\ call = "start_resolve"
    /\ result' = get_triangle_for_fractal_coord(coord)
    /\ call' = "get_triangle_for_fractal_coord"
    /\ UNCHANGED <<coord, text, header, triangle, args, locateVars, routeVars,
                   serviceVars>>

Centroid ==
    /\ call = "start_resolve"
    /\ result' = fractal_to_cartesian(coord)
    /\ call' = "fractal_to_cartesian"
    /\ UNCHANGED <<coord, text, header, triangle, args, locateVars, routeVars,
                   serviceVars>>

\* the values of max_depth a caller asks the boundary test about
BoundaryDepths == 0..(MaxDepth + 1)

OnBoundary ==
    /\ call = "start_resolve"
    /\ coord.tag = "AddressedFractalCoordinate"
    /\ \E maxd \in BoundaryDepths :
          /\ result' = is_on_boundary(coord, maxd)
          /\ args' = [tag |-> "args", max_depth |-> maxd]
    /\ call' = "is_on_boundary"
    /\ UNCHANGED <<coord, text, header, triangle, locateVars, routeVars,
                   serviceVars>>

NextResolve ==
    Subdivide \/ ResolveAddressed \/ ResolveSolid \/ Centroid \/ OnBoundary

SpecResolve == InitResolve /\ [][NextResolve]_vars

-----------------------------------------------------------------------------
(* SpecLocate: cartesian_to_fractal, one iteration of its loop at a time *)

\* every lattice point of the bounding box of the Genesis Triad and one
\* cell around it
LocatePoints ==
    {CartesianPoint(x, y) : x \in (-LatticeN - 1)..(LatticeN + 1),
                            y \in (-LatticeN - 1)..(2 * LatticeN + 1)}

InitLocate ==
    /\ call = "start_locate"
    /\ point \in LocatePoints
    /\ max_depth \in 0..MaxDepth
    /\ current_triangle_vertices = None
    /\ path_elements = <<>>
    /\ d = 0
    /\ pc = "idle"
    /\ args = NoArgs
    /\ coord = None
    /\ text = <<>>
    /\ result = None
    /\ header = None
    /\ triangle = None
    /\ IdleRoute
    /\ IdleServices

\* the test against the initial triad, before the loop
LocateEnter ==
    /\ pc = "idle"
    /\ call = "start_locate"
    /\ IF ~InTriangle(point, GENESIS_TRIAD_VERTICES)
       THEN /\ result' = None
            /\ pc' = "done"
            /\ call' = "cartesian_to_fractal"
            /\ UNCHANGED <<current_triangle_vertices>>
       ELSE /\ current_triangle_vertices' = GENESIS_TRIAD_VERTICES
            /\ pc' = "loop"
            /\ UNCHANGED <<result, call>>
    /\ UNCHANGED <<coord, text, header, triangle, args, point, max_depth,
                   path_elements, d, routeVars,
                   serviceVars>>

\* variant: the loop runs while d <= max_depth
LocateIterateOneMore ==
    /\ pc = "loop"
    /\ d <= max_depth
    /\ LET digit == LocateDigit(point, current_triangle_vertices)
       IN  IF digit = NoMatch
           THEN /\ pc' = "break"
                /\ UNCHANGED <<path_elements, current_triangle_vertices>>
           ELSE /\ path_elements' = Append(path_elements, digit)
                /\ current_triangle_vertices' =
                       LocateRegion(current_triangle_vertices, digit)
                /\ pc' = "loop"
    /\ d' = d + 1
    /\ UNCHANGED <<call, coord, text, result, header, triangle, args, point,
                   max_depth, routeVars,
                   serviceVars>>

\* one iteration of "for d in range(max_depth)"
LocateIterate ==
    /\ pc = "loop"
    /\ d < max_depth
    /\ LET digit == LocateDigit(point, current_triangle_vertices)
       IN  IF digit = NoMatch
           THEN /\ pc' = "break"
                /\ UNCHANGED <<path_elements, current_triangle_vertices>>
           ELSE /\ path_elements' = Append(path_elements, digit)
                /\ current_triangle_vertices' =
                       LocateRegion(current_triangle_vertices, digit)
                /\ pc' = "loop"
    /\ d' = d + 1
    /\ UNCHANGED <<call, coord, text, result, header, triangle, args, point,
                   max_depth, routeVars,
                   serviceVars>>

\* after the loop: the coordinate of the digits accumulated
LocateReturn ==
    /\ \/ pc = "break"
       \/ pc = "loop" /\ d >= max_depth
    /\ result' = AddressedFractalCoordinate(Len(path_elements), path_elements)
    /\ pc' = "done"
    /\ call' = "cartesian_to_fractal"
    /\ UNCHANGED <<coord, text, header, triangle, args, point, max_depth,
                   current_triangle_vertices, path_elements, d, routeVars,
                   serviceVars>>

NextLocate == LocateEnter \/ LocateIterate \/ LocateReturn

SpecLocate == InitLocate /\ [][NextLocate]_vars

\* the call is straight-line code on one thread: a step that can be taken
\* is taken
SpecLocateFair == InitLocate /\ [][NextLocate]_vars /\ WF_vars(NextLocate)

-----------------------------------------------------------------------------
(* SpecRoute: find_path_dijkstra, one iteration of its while loop at a time,
   over a neighbour relation the caller supplies *)

\* the four regions of the first subdivision: three solid, one void
RouteNodes == {AddressedFractalCoordinate(1, <<i>>) : i \in 0..3}

\* every neighbour relation over RouteNodes that lists no coordinate as its
\* own neighbour and at most MaxOutDegree neighbours per coordinate
RouteRelations ==
    {f \in [RouteNodes -> SUBSET RouteNodes] :
        \A n \in RouteNodes : n \notin f[n] /\ Cardinality(f[n]) <= MaxOutDegree}

\* the values of max_depth_for_pathfinding a caller passes
RouteLimits == {None, PyInt(0), PyInt(1)}

InitRoute ==
    /\ call = "start_route"
    /\ args \in {[tag |-> "args", start_coord |-> a, end_coord |-> b,
                   max_depth_for_pathfinding |-> limit, get_neighbors |-> f] :
                    a \in RouteNodes, b \in RouteNodes, limit \in RouteLimits,
                    f \in RouteRelations}
    /\ coord = None
    /\ text = <<>>
    /\ result = None
    /\ header = None
    /\ triangle = None
    /\ IdleLocate
    /\ IdleRoute
    /\ IdleServices

\* the two early returns, else the three containers are set up
FindPathEnter ==
    /\ call = "start_route"
    /\ pc = "idle"
    /\ IF is_void_path(args.start_coord) \/ is_void_path(args.end_coord)
       THEN /\ result' = None
            /\ pc' = "done"
            /\ call' = "find_path_dijkstra"
            /\ UNCHANGED routeVars
       ELSE IF CoordEq(args.start_coord, args.end_coord)
       THEN /\ result' = PyList(<<args.start_coord>>)
            /\ pc' = "done"
            /\ call' = "find_path_dijkstra"
            /\ UNCHANGED routeVars
       ELSE /\ pq' = {[cost |-> 0, coord |-> args.start_coord]}
            /\ came_from' = DictSet(EmptyDict, [k \in {args.start_coord} |-> None])
            /\ cost_so_far' = DictSet(EmptyDict, [k \in {args.start_coord} |-> 0])
            /\ pc' = "while"
            /\ UNCHANGED <<result, call>>
    /\ UNCHANGED <<coord, text, header, triangle, args, point, max_depth,
                   current_triangle_vertices, path_elements, d,
                   serviceVars>>

\* one iteration of "while pq": pop the cheapest entry; return the path if
\* it is the destination, else relax its neighbours
FindPathIterate ==
    /\ pc = "while"
    /\ pq # {}
    /\ LET popped == heappop(pq)
           current_coord == popped.coord
       IN  IF CoordEq(current_coord, args.end_coord)
           THEN /\ result' = PyList(ReconstructPath(came_from, args.end_coord))
                /\ pc' = "done"
                /\ call' = "find_path_dijkstra"
                /\ pq' = pq \ {popped}
                /\ UNCHANGED <<came_from, cost_so_far>>
           ELSE LET neighbors == args.get_neighbors[current_coord]
                    relaxed == Relaxed(current_coord, neighbors,
                                       args.max_depth_for_pathfinding, cost_so_far)
                IN  /\ cost_so_far' =
                           DictSet(cost_so_far,
                                   [n \in relaxed |->
                                       NewCost(current_coord, n, cost_so_far)])
                    /\ came_from' =
                           DictSet(came_from, [n \in relaxed |-> current_coord])
                    /\ pq' = (pq \ {popped})
                                 \cup {[cost |-> NewCost(current_coord, n, cost_so_far),
                                        coord |-> n] : n \in relaxed}
                    /\ UNCHANGED <<result, call, pc>>
    /\ UNCHANGED <<coord, text, header, triangle, args, point, max_depth,
                   current_triangle_vertices, path_elements, d,
                   serviceVars>>

\* the heap ran empty: no path found
FindPathExhausted ==
    /\ pc = "while"
    /\ pq = {}
    /\ result' = None
    /\ pc' = "done"
    /\ call' = "find_path_dijkstra"
    /\ UNCHANGED <<coord, text, header, triangle, args, point, max_depth,
                   current_triangle_vertices, path_elements, d, routeVars,
                   serviceVars>>

NextRoute == FindPathEnter \/ FindPathIterate \/ FindPathExhausted

SpecRoute == InitRoute /\ [][NextRoute]_vars

\* the coordinates routed between when the relation is the engine's own
EngineNodes == AddressedCoords(MaxRouteDepth)

\* geometry_validator.get_neighbors, the name path_finder imports, as the
\* neighbour function
EngineNeighbors == [c \in EngineNodes |-> get_neighbors(c)]

EngineLimits == {None} \cup {PyInt(n) : n \in 0..MaxRouteDepth}

InitRouteEngine ==
    /\ call = "start_route"
    /\ args \in {[tag |-> "args", start_coord |-> a, end_coord |-> b,
                   max_depth_for_pathfinding |-> limit,
                   get_neighbors |-> EngineNeighbors] :
                    a \in EngineNodes, b \in EngineNodes, limit \in EngineLimits}
    /\ coord = None
    /\ text = <<>>
    /\ result = None
    /\ header = None
    /\ triangle = None
    /\ IdleLocate
    /\ IdleRoute
    /\ IdleServices

\* the call is straight-line code on one thread: a step that can be taken
\* is taken
SpecRouteEngine ==
    InitRouteEngine /\ [][NextRoute]_vars /\ WF_vars(NextRoute)

-----------------------------------------------------------------------------
(* Spec: a caller walks the fractal, feeding each coordinate an engine call
   returned into the next call *)

\* the points a walking caller locates: the top vertex, the centre, the
\* midpoint of the left side, two interior points and a point outside
WalkPoints ==
    {CartesianPoint(0, 2 * LatticeN), CartesianPoint(0, 0),
     CartesianPoint(-(LatticeN \div 2), LatticeN \div 2),
     CartesianPoint(1, -LatticeN + 1), CartesianPoint(-2, LatticeN),
     CartesianPoint(LatticeN, LatticeN)}

\* the strings a walking caller decodes: the encodings of the shallowest
\* coordinates, and some strings that are no encoding
WalkStrings ==
    {coord_to_string(c) : c \in AddressedCoords(1)}
        \cup {<<"d", "2", "p", "3", "1">>, <<"d", "0", "p", "p">>,
              <<"d", "1", "p", "4">>, <<"d", "2", "p", "0">>,
              <<"d", "+", "1", "p", "3">>, <<"p", "0">>}

\* the values of max_depth_limit a walking caller passes
WalkLimits == {None} \cup {PyInt(n) : n \in 0..MaxDepth}

Init ==
    /\ call = "start"
    /\ coord \in AddressedCoords(MaxDepth) \cup SolidCoords(MaxDepth)
    /\ args = NoArgs
    /\ text = <<>>
    /\ result = None
    /\ header = None
    /\ triangle = None
    /\ IdleLocate
    /\ IdleRoute
    /\ IdleServices

Parent ==
    /\ result' = get_parent(coord)
    /\ coord' = IF IsCoord(result') THEN result' ELSE coord
    /\ call' = "get_parent"
    /\ UNCHANGED <<text, header, triangle, args, locateVars, routeVars,
                   serviceVars>>

\* get_children, the caller moving on to one of the children returned
Children ==
    /\ coord.depth < MaxDepth
    /\ \E max_depth_limit \in WalkLimits :
          /\ result' = PyList(get_children(coord, max_depth_limit))
          /\ args' = [tag |-> "args", max_depth_limit |-> max_depth_limit]
    /\ coord' \in IF result'.items = <<>> THEN {coord} ELSE Range(result'.items)
    /\ call' = "get_children"
    /\ UNCHANGED <<text, header, triangle, locateVars, routeVars,
                   serviceVars>>

Siblings ==
    /\ result' = PyList(get_siblings(coord))
    /\ coord' \in IF result'.items = <<>> THEN {coord} ELSE Range(result'.items)
    /\ call' = "get_siblings"
    /\ UNCHANGED <<text, header, triangle, args, locateVars, routeVars,
                   serviceVars>>

Neighbors ==
    /\ result' = [tag |-> "set", elems |-> get_neighbors(coord)]
    /\ coord' \in IF result'.elems = {} THEN {coord} ELSE result'.elems
    /\ call' = "get_neighbors"
    /\ UNCHANGED <<text, header, triangle, args, locateVars, routeVars,
                   serviceVars>>

Locate ==
    /\ \E pt \in WalkPoints, maxd \in 0..MaxDepth :
          result' = cartesian_to_fractal(pt, maxd)
    /\ coord' = IF IsCoord(result') THEN result' ELSE coord
    /\ call' = "cartesian_to_fractal"
    /\ UNCHANGED <<text, header, triangle, args, locateVars, routeVars,
                   serviceVars>>

FromString ==
    /\ \E s \in WalkStrings, allow_void_paths \in BOOLEAN :
          result' = string_to_coord(s, allow_void_paths)
    /\ coord' = IF IsCoord(result') THEN result' ELSE coord
    /\ call' = "string_to_coord"
    /\ UNCHANGED <<text, header, triangle, args, locateVars, routeVars,
                   serviceVars>>

Next == Parent \/ Children \/ Siblings \/ Neighbors \/ Locate \/ FromString

Spec == Init /\ [][Next]_vars

-----------------------------------------------------------------------------
(* blockchain.transactions.Transaction and mempool.pool.TransactionPool.
   Amounts and fees are whole numbers.  A SHA-256 digest is modelled by the
   content it was computed from: two digests are equal exactly when their
   contents are. *)

\* most transactions a bounded pool is created for
MaxPoolSize == 2

\* json.dumps of _to_hashable_dict, then SHA-256: a coordinate contributes
\* its path and its depth, None contributes None twice; transaction_type,
\* signature and data keep their defaults
_calculate_hash(sender_coord, receiver_coord, amount, fee, nonce, timestamp) ==
    [tag |-> "sha256",
     sender_coord |-> IF IsNone(sender_coord) THEN None
                      ELSE PyList(sender_coord.path),
     sender_coord_depth |-> IF IsNone(sender_coord) THEN None
                            ELSE PyInt(sender_coord.depth),
     receiver_coord |-> IF IsNone(receiver_coord) THEN None
                        ELSE PyList(receiver_coord.path),
     receiver_coord_depth |-> IF IsNone(receiver_coord) THEN None
                              ELSE PyInt(receiver_coord.depth),
     amount |-> amount, fee |-> fee, nonce |-> nonce,
     timestamp |-> timestamp]

\* the dataclass after __post_init__
Transaction(sender_coord, receiver_coord, amount, fee, nonce, timestamp) ==
    [tag |-> "Transaction",
     sender_coord |-> sender_coord, receiver_coord |-> receiver_coord,
     amount |-> amount, fee |-> fee, nonce |-> nonce,
     timestamp |-> timestamp,
     id |-> _calculate_hash(sender_coord, receiver_coord, amount, fee, nonce,
                            timestamp)]

\* del dict[key]
DictDel(dict, key) == [k \in (DOMAIN dict) \ {key} |-> dict[k]]

_add_to_destination_map(map, tx) ==
    LET dest_coord == tx.receiver_coord
        with_key == IF dest_coord \notin DOMAIN map
                    THEN DictSet(map, [k \in {dest_coord} |-> {}])
                    ELSE map
    IN  [with_key EXCEPT ![dest_coord] = @ \cup {tx.id}]

\* variant: the set is left in the map when it becomes empty
_remove_from_destination_map_keeping_empty(map, tx) ==
    LET dest_coord == tx.receiver_coord
    IN  IF dest_coord \in DOMAIN map /\ tx.id \in map[dest_coord]
        THEN [map EXCEPT ![dest_coord] = @ \ {tx.id}]
        ELSE map

_remove_from_destination_map(map, tx) ==
    LET dest_coord == tx.receiver_coord
    IN  IF dest_coord \in DOMAIN map
        THEN IF tx.id \in map[dest_coord]
             THEN LET removed == [map EXCEPT ![dest_coord] = @ \ {tx.id}]
                  IN  IF removed[dest_coord] = {}
                      THEN DictDel(removed, dest_coord)
                      ELSE removed
             ELSE map
        ELSE map

\* the outcome of a pool call: what it returns and the two dicts after it
PoolOutcome(ret, txs, map) ==
    [ret |-> ret, _transactions |-> txs, _destination_coord_map |-> map]

\* variant: the size limit is not looked at
add_transaction_unbounded(txs, map, limit, tx) ==
    IF tx.tag # "Transaction" THEN PoolOutcome(PyBool(FALSE), txs, map)
    ELSE IF tx.id \in DOMAIN txs THEN PoolOutcome(PyBool(FALSE), txs, map)
    ELSE IF tx.amount < 0 THEN PoolOutcome(PyBool(FALSE), txs, map)
    ELSE IF tx.fee < 0 THEN PoolOutcome(PyBool(FALSE), txs, map)
    ELSE IF tx.nonce < 0 THEN PoolOutcome(PyBool(FALSE), txs, map)
    ELSE PoolOutcome(PyBool(TRUE),
                     DictSet(txs, [k \in {tx.id} |-> tx]),
                     _add_to_destination_map(map, tx))

add_transaction(txs, map, limit, tx) ==
    IF tx.tag # "Transaction" THEN PoolOutcome(PyBool(FALSE), txs, map)
    ELSE IF tx.id \in DOMAIN txs THEN PoolOutcome(PyBool(FALSE), txs, map)
    ELSE IF tx.amount < 0 THEN PoolOutcome(PyBool(FALSE), txs, map)
    ELSE IF tx.fee < 0 THEN PoolOutcome(PyBool(FALSE), txs, map)
    ELSE IF tx.nonce < 0 THEN PoolOutcome(PyBool(FALSE), txs, map)
    ELSE IF ~IsNone(limit) /\ Cardinality(DOMAIN txs) >= limit.val
    THEN PoolOutcome(PyBool(FALSE), txs, map)
    ELSE PoolOutcome(PyBool(TRUE),
                     DictSet(txs, [k \in {tx.id} |-> tx]),
                     _add_to_destination_map(map, tx))

\* pop(tx_id, None); a Transaction is always truthy
remove_transaction(txs, map, tx_id) ==
    LET tx == DictGet(txs, tx_id)
    IN  IF IsNone(tx) THEN PoolOutcome(tx, txs, map)
        ELSE PoolOutcome(tx, DictDel(txs, tx_id),
                         _remove_from_destination_map(map, tx))

clear_pool(txs, map) == PoolOutcome(None, EmptyDict, EmptyDict)

\* every order a set can be iterated in
Orderings(S) == {s \in [1..Cardinality(S) -> S] : Range(s) = S}

\* the lists the comprehension over the set of ids can produce
get_transactions_by_destination(txs, map, destination_coord) ==
    LET tx_ids == IF destination_coord \in DOMAIN map
                  THEN map[destination_coord] ELSE {}
    IN  {PyList([i \in DOMAIN order |-> txs[order[i]]]) :
            order \in Orderings({tx_id \in tx_ids : tx_id \in DOMAIN txs})}

-----------------------------------------------------------------------------
(* SpecPool: a caller creates a TransactionPool and calls add_transaction,
   remove_transaction, clear_pool and get_transactions_by_destination in any
   order *)

PoolSenders == {AddressedFractalCoordinate(1, <<0>>)}

PoolReceivers ==
    {None, AddressedFractalCoordinate(1, <<1>>), AddressedFractalCoordinate(1, <<2>>)}

\* the transactions a caller holds: valid ones and ones with a negative
\* amount, fee or nonce
PoolTransactions ==
    {Transaction(s, r, a, f, n, 100) :
        s \in PoolSenders, r \in PoolReceivers,
        a \in {-1, 5}, f \in {-1, 1}, n \in {-1, 0, 1}}

\* what a caller hands to add_transaction
PoolInputs == PoolTransactions \cup {PyStrVal(<<"t", "x">>)}

PoolSizes == {None} \cup {PyInt(n) : n \in 0..MaxPoolSize}

InitPool ==
    /\ call = "TransactionPool"
    /\ max_pool_size \in PoolSizes
    /\ _transactions = EmptyDict
    /\ _destination_coord_map = EmptyDict
    /\ args = NoArgs
    /\ coord = None
    /\ text = <<>>
    /\ result = None
    /\ header = None
    /\ triangle = None
    /\ IdleLocate
    /\ IdleRoute
    /\ miners = EmptyDict
    /\ current_round_shares = <<>>
    /\ total_weighted_shares_this_round = None
    /\ payouts = EmptyDict
    /\ tree_root_node = None
    /\ proof = None

\* the call returns: its result and the two dicts as it leaves them
PoolCall(arguments, outcome) ==
    /\ args' = arguments
    /\ result' = outcome.ret
    /\ _transactions' = outcome._transactions
    /\ _destination_coord_map' = outcome._destination_coord_map
    /\ UNCHANGED <<coord, text, header, triangle, locateVars, routeVars,
                   max_pool_size, miningVars, merkleVars>>

AddTransaction ==
    \E tx \in PoolInputs :
        /\ call' = "add_transaction"
        /\ PoolCall([tag |-> "args", tx |-> tx],
                       add_transaction(_transactions, _destination_coord_map,
                                    max_pool_size, tx))

RemoveTransaction ==
    \E tx \in PoolTransactions :
        /\ call' = "remove_transaction"
        /\ PoolCall([tag |-> "args", tx_id |-> tx.id],
                    remove_transaction(_transactions, _destination_coord_map,
                                       tx.id))

ClearPool ==
    /\ call' = "clear_pool"
    /\ PoolCall(NoArgs, clear_pool(_transactions, _destination_coord_map))

GetTransactionsByDestination ==
    \E destination_coord \in PoolReceivers \cup PoolSenders :
        \E listed \in get_transactions_by_destination(
                          _transactions, _destination_coord_map,
                          destination_coord) :
            /\ call' = "get_transactions_by_destination"
            /\ PoolCall([tag |-> "args", destination_coord |-> destination_coord],
                        PoolOutcome(listed, _transactions,
                                    _destination_coord_map))

NextPool ==
    AddTransaction \/ RemoveTransaction \/ ClearPool
        \/ GetTransactionsByDestination

SpecPool == InitPool /\ [][NextPool]_vars

-----------------------------------------------------------------------------
(* mining.reward_system.FractalRewardSystem.calculate_block_reward and
   mining.pool_protocol.FractalMiningPool.  A float is modelled by the exact
   fraction it stands for, a record of a numerator and a positive
   denominator in lowest terms; floating-point rounding is not modelled. *)

\* most shares submitted in one round
MaxRoundShares == 2
\* a block is found only while the pool has paid out less than this
MaxPaidOut == 100

RECURSIVE GCD(_, _)
GCD(a, b) == IF b = 0 THEN a ELSE GCD(b, a % b)

\* the fraction n / m, m # 0, in lowest terms
Rat(n, m) ==
    LET s == IF m < 0 THEN -1 ELSE 1
        g == GCD(Abs(n), Abs(m))
    IN  [tag |-> "float", num |-> (s * n) \div g, den |-> (s * m) \div g]

RatAdd(a, b) == Rat(a.num * b.den + b.num * a.den, a.den * b.den)

RatMul(a, b) == Rat(a.num * b.num, a.den * b.den)

RatDiv(a, b) == Rat(a.num * b.den, a.den * b.num)

RatLess(a, b) == a.num * b.den < b.num * a.den

RatMax(a, b) == IF RatLess(a, b) THEN b ELSE a

RECURSIVE RatPow(_, _)
RatPow(a, n) == IF n = 0 THEN Rat(1, 1) ELSE RatMul(a, RatPow(a, n - 1))

Zero == Rat(0, 1)

BASE_REWARD == 50

DEPTH_REWARD_MULTIPLIER == Rat(11, 10)

MAX_REWARD_CALCULATION_DEPTH == 100

MINIMUM_REWARD == 1

\* round(final_reward, 8) changes nothing at the depths a block is found at
\* here: the reward has at most two decimals
calculate_block_reward(fractal_depth) ==
    LET effective_depth == IF fractal_depth < 0 THEN 0 ELSE fractal_depth
        depth_for_calculation ==
            IF effective_depth < MAX_REWARD_CALCULATION_DEPTH
            THEN effective_depth ELSE MAX_REWARD_CALCULATION_DEPTH
        current_reward ==
            RatMul(Rat(BASE_REWARD, 1),
                   RatPow(DEPTH_REWARD_MULTIPLIER, depth_for_calculation))
    IN  RatMax(current_reward, Rat(MINIMUM_REWARD, 1))

DEFAULT_POOL_SHARE_DIFFICULTY_PREFIX == <<"0">>

\* str.startswith
StartsWith(s, prefix) ==
    Len(s) >= Len(prefix) /\ SubSeq(s, 1, Len(prefix)) = prefix

\* the frozen dataclass; its timestamp, the wall clock, is read by nothing
PoolShare(miner_id, fractal_coord, nonce, mined_hash, share_weight) ==
    [tag |-> "PoolShare", miner_id |-> miner_id,
     fractal_coord |-> fractal_coord, nonce |-> nonce,
     mined_hash |-> mined_hash, share_weight |-> share_weight]

\* the dataclass with total_weighted_shares = 0.0
MinerContribution(miner_id) ==
    [tag |-> "MinerContribution", miner_id |-> miner_id,
     total_weighted_shares |-> Zero]

get_pool_share_difficulty_prefix(fractal_coord) ==
    DEFAULT_POOL_SHARE_DIFFICULTY_PREFIX

\* max(0.1, 1.0 + depth * 0.5)
calculate_share_weight(share_coord) ==
    RatMax(Rat(1, 10), RatAdd(Rat(1, 1), RatMul(Rat(share_coord.depth, 1), Rat(1, 2))))

\* the state of a FractalMiningPool and what the call returned
MiningOutcome(ret, m, shares, total, paid) ==
    [ret |-> ret, miners |-> m, current_round_shares |-> shares,
     total_weighted_shares_this_round |-> total, payouts |-> paid]

\* variant: registering makes a fresh contribution record in every case
register_miner_afresh(pool, miner_id) ==
    MiningOutcome(None,
                  DictSet(pool.miners,
                          [k \in {miner_id} |-> MinerContribution(miner_id)]),
                  pool.current_round_shares,
                  pool.total_weighted_shares_this_round, pool.payouts)

register_miner(pool, miner_id) ==
    IF miner_id \notin DOMAIN pool.miners
    THEN MiningOutcome(None,
                       DictSet(pool.miners,
                               [k \in {miner_id} |-> MinerContribution(miner_id)]),
                       pool.current_round_shares,
                       pool.total_weighted_shares_this_round, pool.payouts)
    ELSE MiningOutcome(None, pool.miners, pool.current_round_shares,
                       pool.total_weighted_shares_this_round, pool.payouts)

submit_share(pool, miner_id, fractal_coord, nonce, mined_hash) ==
    IF miner_id \notin DOMAIN pool.miners
    THEN [pool EXCEPT !.ret = PyBool(FALSE)]
    ELSE IF ~StartsWith(mined_hash, get_pool_share_difficulty_prefix(fractal_coord))
    THEN [pool EXCEPT !.ret = PyBool(FALSE)]
    ELSE LET weight == calculate_share_weight(fractal_coord)
             share == PoolShare(miner_id, fractal_coord, nonce, mined_hash, weight)
         IN  MiningOutcome(
                 PyBool(TRUE),
                 [pool.miners EXCEPT ![miner_id].total_weighted_shares =
                                         RatAdd(@, weight)],
                 Append(pool.current_round_shares, share),
                 RatAdd(pool.total_weighted_shares_this_round, weight),
                 pool.payouts)

_start_new_round(pool) ==
    MiningOutcome(None,
                  [miner_id \in DOMAIN pool.miners |->
                      [pool.miners[miner_id] EXCEPT !.total_weighted_shares = Zero]],
                  <<>>, Zero, pool.payouts)

\* the loop over self.miners.items(): the miners with a positive round
\* weight are credited, each under its own key
Credited(pool, actual_block_reward) ==
    LET paid == {miner_id \in DOMAIN pool.miners :
                    RatLess(Zero, pool.miners[miner_id].total_weighted_shares)}
    IN  DictSet(pool.payouts,
                [miner_id \in paid |->
                    LET proportion ==
                            RatDiv(pool.miners[miner_id].total_weighted_shares,
                                   pool.total_weighted_shares_this_round)
                        miner_reward == RatMul(actual_block_reward, proportion)
                        before == IF miner_id \in DOMAIN pool.payouts
                                  THEN pool.payouts[miner_id] ELSE Zero
                    IN  RatAdd(before, miner_reward)])

\* variant: the round is left as it is after the payout
block_found_by_pool_without_reset(pool, block_fractal_coord) ==
    LET actual_block_reward == calculate_block_reward(block_fractal_coord.depth)
    IN  IF pool.total_weighted_shares_this_round = Zero
        THEN _start_new_round(pool)
        ELSE [pool EXCEPT !.ret = None,
                          !.payouts = Credited(pool, actual_block_reward)]

block_found_by_pool(pool, block_fractal_coord) ==
    LET actual_block_reward == calculate_block_reward(block_fractal_coord.depth)
    IN  IF pool.total_weighted_shares_this_round = Zero
        THEN _start_new_round(pool)
        ELSE _start_new_round(
                 [pool EXCEPT !.payouts = Credited(pool, actual_block_reward)])

-----------------------------------------------------------------------------
(* SpecMining: miners register with a FractalMiningPool and submit shares,
   and the pool finds blocks, in any order *)

MinerIds == {"miner1", "miner2"}

ShareCoords == {GenesisCoord, AddressedFractalCoordinate(1, <<0>>)}

\* a hash that meets the pool's prefix and one that does not
ShareHashes == {<<"0", "a">>, <<"1", "a">>}

BlockCoords == {GenesisCoord, AddressedFractalCoordinate(1, <<2>>)}

\* the pool object as the operations above take it
MiningPool ==
    MiningOutcome(result, miners, current_round_shares,
                  total_weighted_shares_this_round, payouts)

RECURSIVE RatSum(_, _)
\* the sum of f[k] over the keys k in S
RatSum(f, S) ==
    IF S = {} THEN Zero
    ELSE LET k == CHOOSE x \in S : TRUE
         IN  RatAdd(f[k], RatSum(f, S \ {k}))

InitMining ==
    /\ call = "FractalMiningPool"
    /\ miners = EmptyDict
    /\ current_round_shares = <<>>
    /\ total_weighted_shares_this_round = Zero
    /\ payouts = EmptyDict
    /\ args = NoArgs
    /\ coord = None
    /\ text = <<>>
    /\ result = None
    /\ header = None
    /\ triangle = None
    /\ IdleLocate
    /\ IdleRoute
    /\ _transactions = EmptyDict
    /\ _destination_coord_map = EmptyDict
    /\ max_pool_size = None
    /\ tree_root_node = None
    /\ proof = None

\* the call returns: its result and the pool as it leaves it
MiningCall(arguments, outcome) ==
    /\ args' = arguments
    /\ result' = outcome.ret
    /\ miners' = outcome.miners
    /\ current_round_shares' = outcome.current_round_shares
    /\ total_weighted_shares_this_round' = outcome.total_weighted_shares_this_round
    /\ payouts' = outcome.payouts
    /\ UNCHANGED <<coord, text, header, triangle, locateVars, routeVars,
                   poolVars, merkleVars>>

RegisterMiner ==
    \E miner_id \in MinerIds :
        /\ call' = "register_miner"
        /\ MiningCall([tag |-> "args", miner_id |-> miner_id],
                      register_miner(MiningPool, miner_id))

SubmitShare ==
    \E miner_id \in MinerIds, fractal_coord \in ShareCoords,
       mined_hash \in ShareHashes :
        /\ Len(current_round_shares) < MaxRoundShares
        /\ call' = "submit_share"
        /\ MiningCall([tag |-> "args", miner_id |-> miner_id,
                       fractal_coord |-> fractal_coord, mined_hash |-> mined_hash],
                      submit_share(MiningPool, miner_id, fractal_coord, 7,
                                   mined_hash))

BlockFoundByPool ==
    \E block_fractal_coord \in BlockCoords :
        /\ RatLess(RatSum(payouts, DOMAIN payouts), Rat(MaxPaidOut, 1))
        /\ call' = "block_found_by_pool"
        /\ MiningCall([tag |-> "args", block_fractal_coord |-> block_fractal_coord],
                      block_found_by_pool(MiningPool, block_fractal_coord))

NextMining == RegisterMiner \/ SubmitShare \/ BlockFoundByPool

SpecMining == InitMining /\ [][NextMining]_vars

-----------------------------------------------------------------------------
(* structures.merkle: hash_pair, build_merkle_tree_from_hashes and
   FractalLevelMerkleTree.generate_merkle_proof / verify_merkle_proof.  A
   hash is a str.  The SHA-256 hex digest of a string is modelled by the
   string itself between two marks that occur in no leaf, so two digests are
   equal exactly when the strings digested are. *)

\* most leaf hashes a tree is built from
MaxLeaves == 4

hash_data(data) == <<"(">> \o data \o <<")">>

hash_pair(hash1, hash2) == hash_data(hash1 \o hash2)

FractalMerkleNode(value, left_child, right_child) ==
    [tag |-> "FractalMerkleNode", value |-> value,
     left |-> left_child, right |-> right_child]

\* the while loop from one level of nodes up to the root
RECURSIVE MerkleLevels(_)
MerkleLevels(nodes) ==
    IF Len(nodes) <= 1 THEN nodes
    ELSE LET padded == IF Len(nodes) % 2 # 0
                       THEN Append(nodes, nodes[Len(nodes)])
                       ELSE nodes
             new_level_nodes ==
                 [i \in 1..(Len(padded) \div 2) |->
                     LET left == padded[2 * i - 1]
                         right == padded[2 * i]
                     IN  FractalMerkleNode(hash_pair(left.value, right.value),
                                           left, right)]
         IN  MerkleLevels(new_level_nodes)

build_merkle_tree_from_hashes(data_hashes) ==
    IF data_hashes = <<>> THEN None
    ELSE MerkleLevels([i \in DOMAIN data_hashes |->
                          FractalMerkleNode(data_hashes[i], None, None)])[1]

\* what the helper returns, with the entries it appended to proof_path
PathSearch(found, proof_path) == [found |-> found, proof_path |-> proof_path]

\* variant: each sibling is recorded with the side the path is on
RECURSIVE find_path_and_collect_siblings_own_side(_, _)
find_path_and_collect_siblings_own_side(current_node, target_hash) ==
    IF IsNone(current_node) THEN PathSearch(FALSE, <<>>)
    ELSE IF /\ current_node.value = target_hash
            /\ IsNone(current_node.left)
            /\ IsNone(current_node.right)
    THEN PathSearch(TRUE, <<>>)
    ELSE LET in_left ==
                 find_path_and_collect_siblings_own_side(current_node.left,
                                                         target_hash)
             in_right ==
                 find_path_and_collect_siblings_own_side(current_node.right,
                                                         target_hash)
         IN  IF ~IsNone(current_node.left) /\ in_left.found
             THEN PathSearch(TRUE,
                      IF ~IsNone(current_node.right)
                      THEN Append(in_left.proof_path,
                                  <<current_node.right.value, "left">>)
                      ELSE in_left.proof_path)
             ELSE IF ~IsNone(current_node.right) /\ in_right.found
             THEN PathSearch(TRUE,
                      IF ~IsNone(current_node.left)
                      THEN Append(in_right.proof_path,
                                  <<current_node.left.value, "right">>)
                      ELSE in_right.proof_path)
             ELSE PathSearch(FALSE, <<>>)

\* the nested helper: depth-first, left before right; the sibling of each
\* node on the path is appended on the way back up
RECURSIVE find_path_and_collect_siblings(_, _)
find_path_and_collect_siblings(current_node, target_hash) ==
    IF IsNone(current_node) THEN PathSearch(FALSE, <<>>)
    ELSE IF /\ current_node.value = target_hash
            /\ IsNone(current_node.left)
            /\ IsNone(current_node.right)
    THEN PathSearch(TRUE, <<>>)
    ELSE LET in_left ==
                 find_path_and_collect_siblings(current_node.left, target_hash)
             in_right ==
                 find_path_and_collect_siblings(current_node.right, target_hash)
         IN  IF ~IsNone(current_node.left) /\ in_left.found
             THEN PathSearch(TRUE,
                      IF ~IsNone(current_node.right)
                      THEN Append(in_left.proof_path,
                                  <<current_node.right.value, "right">>)
                      ELSE in_left.proof_path)
             ELSE IF ~IsNone(current_node.right) /\ in_right.found
             THEN PathSearch(TRUE,
                      IF ~IsNone(current_node.left)
                      THEN Append(in_right.proof_path,
                                  <<current_node.left.value, "left">>)
                      ELSE in_right.proof_path)
             ELSE PathSearch(FALSE, <<>>)

generate_merkle_proof(leaf_hash, root_node) ==
    IF IsNone(root_node) THEN None
    ELSE IF /\ root_node.value = leaf_hash
            /\ IsNone(root_node.left)
            /\ IsNone(root_node.right)
    THEN PyList(<<>>)
    ELSE LET search == find_path_and_collect_siblings(root_node, leaf_hash)
         IN  IF ~search.found THEN None ELSE PyList(search.proof_path)

\* the loop over the proof from entry i on
RECURSIVE VerifyFrom(_, _, _)
VerifyFrom(current_hash, items, i) ==
    IF i > Len(items) THEN current_hash
    ELSE LET sibling_hash == items[i][1]
             direction == items[i][2]
         IN  IF direction = "left"
             THEN VerifyFrom(hash_pair(sibling_hash, current_hash), items, i + 1)
             ELSE IF direction = "right"
             THEN VerifyFrom(hash_pair(current_hash, sibling_hash), items, i + 1)
             ELSE ValueError("Direction in proof must be 'left' or 'right'.")

verify_merkle_proof(leaf_hash, items, expected_root_hash) ==
    LET current_hash == VerifyFrom(leaf_hash, items, 1)
    IN  IF current_hash = ValueError("Direction in proof must be 'left' or 'right'.")
        THEN current_hash
        ELSE PyBool(current_hash = expected_root_hash)

-----------------------------------------------------------------------------
(* SpecMerkle: a caller builds a tree from a list of leaf hashes, asks for
   the proof of one hash and verifies the proof against the root *)

\* three data hashes and the hash of the first two as a pair
LeafHashes == {<<"a">>, <<"b">>, <<"c">>, hash_pair(<<"a">>, <<"b">>)}

\* the hashes a proof is asked for: the leaves, an inner node's hash and one
\* that is in no tree
ProofTargets == LeafHashes \cup {hash_pair(<<"c">>, <<"c">>), <<"x">>}

InitMerkle ==
    /\ call = "start_merkle"
    /\ args \in {[tag |-> "args", data_hashes |-> l, leaf_hash |-> h] :
                    l \in SeqsUpTo(LeafHashes, MaxLeaves), h \in ProofTargets}
    /\ tree_root_node = None
    /\ proof = None
    /\ coord = None
    /\ text = <<>>
    /\ result = None
    /\ header = None
    /\ triangle = None
    /\ IdleLocate
    /\ IdleRoute
    /\ _transactions = EmptyDict
    /\ _destination_coord_map = EmptyDict
    /\ max_pool_size = None
    /\ miners = EmptyDict
    /\ current_round_shares = <<>>
    /\ total_weighted_shares_this_round = None
    /\ payouts = EmptyDict

BuildMerkleTree ==
    /\ call = "start_merkle"
    /\ tree_root_node' = build_merkle_tree_from_hashes(args.data_hashes)
    /\ result' = tree_root_node'
    /\ call' = "build_merkle_tree_from_hashes"
    /\ UNCHANGED <<coord, text, header, triangle, args, locateVars, routeVars,
                   poolVars, miningVars, proof>>

GenerateMerkleProof ==
    /\ call = "build_merkle_tree_from_hashes"
    /\ proof' = generate_merkle_proof(args.leaf_hash, tree_root_node)
    /\ result' = proof'
    /\ call' = "generate_merkle_proof"
    /\ UNCHANGED <<coord, text, header, triangle, args, locateVars, routeVars,
                   poolVars, miningVars, tree_root_node>>

VerifyMerkleProof ==
    /\ call = "generate_merkle_proof"
    /\ ~IsNone(proof)
    /\ result' = verify_merkle_proof(args.leaf_hash, proof.items,
                                     tree_root_node.value)
    /\ call' = "verify_merkle_proof"
    /\ UNCHANGED <<coord, text, header, triangle, args, locateVars, routeVars,
                   poolVars, miningVars, merkleVars>>

NextMerkle == BuildMerkleTree \/ GenerateMerkleProof \/ VerifyMerkleProof

SpecMerkle == InitMerkle /\ [][NextMerkle]_vars

-----------------------------------------------------------------------------
(* Claims about construction (SpecCtor) *)

\* the raw arguments break the addressed kind's construction rule
BadAddressedArgs ==
    \/ Len(args.path) # args.depth
    \/ \E i \in DOMAIN args.path : args.path[i] \notin {0, 1, 2, 3}

\* the raw arguments break the solid-only kind's construction rule
BadSolidArgs ==
    \/ Len(args.path) # args.depth
    \/ \E i \in DOMAIN args.path : args.path[i] \notin {0, 1, 2}

\* C1: constructing an AddressedFractalCoordinate raises ValueError whenever
\* the path length differs from depth or a digit lies outside {0,1,2,3};
\* otherwise it returns the coordinate with depth and path exactly as given.
C1_AddressedConstruction ==
    call = "AddressedFractalCoordinate" =>
        IF BadAddressedArgs THEN IsRaised(result)
        ELSE /\ result.tag = "AddressedFractalCoordinate"
             /\ result.depth = args.depth
             /\ result.path = args.path

\* a path of legal digits whose length is not depth was refused
C1_Witness ==
    /\ call = "AddressedFractalCoordinate"
    /\ IsRaised(result)
    /\ Len(args.path) # args.depth
    /\ args.path # <<>>
    /\ \A i \in DOMAIN args.path : args.path[i] \in {0, 1, 2, 3}

-----------------------------------------------------------------------------
(* Claims about the string codec (SpecCodec) *)

\* C4: decoding, with void paths allowed, the encoding of a valid coordinate
\* returns a coordinate equal to it; so does reading back a coordinate
\* stored as a string in a block header.
C4_RoundTrip ==
    /\ (call = "string_to_coord" /\ ~IsNone(coord) /\ args.allow_void_paths) =>
          (IsCoord(result) /\ CoordEq(result, coord))
    /\ call = "get_fractal_coordinate" =>
          (IsCoord(result) /\ CoordEq(result, coord))

\* a void path whose depth prints with two digits came back from its string
C4_Witness ==
    /\ call = "string_to_coord"
    /\ ~IsNone(coord)
    /\ args.allow_void_paths
    /\ coord.depth >= 10
    /\ is_void_path(coord)
    /\ IsCoord(result)
    /\ CoordEq(result, coord)

\* C5: decoding is strict: a coordinate is returned only for the string
\* 'd' + decimal depth + 'p' + exactly depth digits, so that encoding the
\* returned coordinate gives back the decoded string (and no two strings
\* decode to the same coordinate).
C5_StrictDecoding ==
    (call = "string_to_coord" /\ IsCoord(result)) =>
        coord_to_string(result) = text

\* the grammar of the encoding: "d", a non-negative decimal integer, "p",
\* then as many decimal digits as the integer says, and nothing else
MatchesGrammar(s) ==
    \E k \in 2..(Len(s) - 1) :
        /\ s[1] = "d"
        /\ s[k + 1] = "p"
        /\ \A i \in 2..k : IsDigitChar(s[i])
        /\ \A i \in (k + 2)..Len(s) : IsDigitChar(s[i])
        /\ DigitsValue(SubSeq(s, 2, k)) = Len(s) - (k + 1)

\* the digits of a string that matches the grammar
GrammarDigits(s) ==
    LET k == CHOOSE i \in DOMAIN s : s[i] = "p"
    IN  [i \in 1..(Len(s) - k) |-> DigitValue(s[k + i])]

\* C6: under solid-only decoding a string that matches the grammar but
\* holds a digit outside {0,1,2} raises; a malformed string returns None;
\* a string that matches with all digits in {0,1,2} returns that solid
\* coordinate.
C6_SolidOnlyDecoding ==
    (call = "string_to_coord" /\ ~args.allow_void_paths) =>
        IF ~MatchesGrammar(text) THEN IsNone(result)
        ELSE IF \E i \in DOMAIN GrammarDigits(text) : GrammarDigits(text)[i] \notin {0, 1, 2}
        THEN IsRaised(result)
        ELSE /\ result.tag = "FractalCoordinate"
             /\ result.depth = Len(GrammarDigits(text))
             /\ result.path = GrammarDigits(text)

-----------------------------------------------------------------------------
(* Claim about every coordinate the engine returns (Spec) *)

\* the coordinates among what the last call returned
Returned ==
    IF IsCoord(result) THEN {result}
    ELSE IF result.tag = "list" THEN Range(result.items)
    ELSE IF result.tag = "set" THEN result.elems
    ELSE {}

\* len(path) == depth, every digit legal, depth 0 exactly for the empty path
WellFormed(c) ==
    /\ Len(c.path) = c.depth
    /\ \A i \in DOMAIN c.path : c.path[i] \in {0, 1, 2, 3}
    /\ (c.depth = 0 <=> c.path = <<>>)

-----------------------------------------------------------------------------
(* Claims about subdivision, the resolver and the centroid (SpecResolve) *)

\* m is the midpoint of a and b
IsMidpoint(m, a, b) == 2 * m.x = a.x + b.x /\ 2 * m.y = a.y + b.y

\* the number of the three children that have p among their vertices
ChildrenWithVertex(p, sub) ==
    Cardinality({i \in 1..3 : p \in Range(sub.children[i].v)})

RECURSIVE RegionOfPath(_)
RegionOfPath(path) ==
    IF path = <<>> THEN GENESIS_TRIAD_VERTICES
    ELSE LET sub == subdivide_triangle(RegionOfPath(DropLast(path)))
             digit == path[Len(path)]
         IN  IF digit = 3 THEN sub.void ELSE sub.children[digit + 1]

\* C7: for every valid addressed coordinate, solid or void, resolve returns
\* a triangle, never None: the fold of subdivide over the path from the
\* Genesis Triad (children[d] for d in {0,1,2}, the void for 3); the depth-0
\* coordinate resolves to the Genesis Triad itself.
C7_ResolveIsFold ==
    call = "get_vertices_for_addressed_coord" =>
        /\ result.tag = "TriangleVertices"
        /\ result = RegionOfPath(coord.path)
        /\ coord.depth = 0 => result = GENESIS_TRIAD_VERTICES

\* a path that enters a void and leaves it again through a solid child
C7_Witness ==
    /\ call = "get_vertices_for_addressed_coord"
    /\ coord.depth = 3
    /\ coord.path[2] = 3
    /\ coord.path[3] = 1
    /\ result.tag = "TriangleVertices"

\* p is the arithmetic mean of the three vertices of t
IsMeanOfVertices(p, t) ==
    /\ 3 * p.x = t.v[1].x + t.v[2].x + t.v[3].x
    /\ 3 * p.y = t.v[1].y + t.v[2].y + t.v[3].y

\* C8 as claimed: for every valid coordinate, solid or void, centroid
\* returns the mean of the vertices of resolve(c) and never None.
C8_CentroidOfEveryCoordinate ==
    call = "fractal_to_cartesian" =>
        /\ result.tag = "CartesianPoint"
        /\ IsMeanOfVertices(result, get_vertices_for_addressed_coord(coord))

\* C8 as the code has it: for a valid solid coordinate centroid returns the
\* mean of the vertices of resolve(c); for a coordinate whose path contains
\* the void digit 3 it returns None.
C8_CentroidOfSolidOnly ==
    call = "fractal_to_cartesian" =>
        IF is_solid_path(coord)
        THEN /\ result.tag = "CartesianPoint"
             /\ IsMeanOfVertices(result, get_vertices_for_addressed_coord(coord))
        ELSE IsNone(result)

\* the centroid of a deepest solid region was returned
C8_Witness ==
    /\ call = "fractal_to_cartesian"
    /\ is_solid_path(coord)
    /\ coord.depth = MaxDepth
    /\ result.tag = "CartesianPoint"

-----------------------------------------------------------------------------
(* Claim about the locator's tie-break (SpecLocate) *)

\* the four subregions of the region a path names, in the order the
\* locator tries them: child 0, child 1, child 2, void
Subregions(path) ==
    LET sub == subdivide_triangle(RegionOfPath(path))
    IN  <<sub.children[1], sub.children[2], sub.children[3], sub.void>>

\* C10: at every level of locate the digit appended is the first, in the
\* order child 0, child 1, child 2, void, whose region contains the point
\* (so a point shared by two children goes to the lower-indexed one and a
\* point on the edge between a child and the void goes to the child), and
\* each level begun appends exactly one digit.
C10_FirstMatchWins ==
    /\ \A k \in DOMAIN path_elements :
          LET regions == Subregions(SubSeq(path_elements, 1, k - 1))
              digit == path_elements[k]
          IN  /\ digit \in 0..3
              /\ InTriangle(point, regions[digit + 1])
              /\ \A j \in 1..digit : ~InTriangle(point, regions[j])
    /\ pc \in {"loop", "done"} => Len(path_elements) = d
    /\ (pc = "done" /\ IsCoord(result)) => result.path = path_elements

\* a point on the edge between a solid child and the void, and, a level
\* further down, on a vertex shared by two children, was located
C10_Witness ==
    /\ pc = "done"
    /\ IsCoord(result)
    /\ Len(path_elements) >= 2
    /\ InTriangle(point, Subregions(<<>>)[4])
    /\ path_elements[1] \in 0..2
    /\ \E k \in 2..Len(path_elements) :
          Cardinality({j \in 1..3 :
              InTriangle(point, Subregions(SubSeq(path_elements, 1, k - 1))[j])}) >= 2

-----------------------------------------------------------------------------
(* Claims about the locator's result (SpecLocate) *)

\* the closed Genesis Triangle as three half-planes: above the base, below
\* the left side y = 3x + 2N and below the right side y = -3x + 2N
InsideGenesis(pt) ==
    /\ pt.y >= -LatticeN
    /\ pt.y <= 2 * LatticeN - 3 * Abs(pt.x)

\* C11: for every point that is not inside the Genesis Triangle and every
\* max_depth, 0 included, locate returns None; for every point inside it
\* locate returns a coordinate, never None.
C11_OutsideIsNone ==
    pc = "done" =>
        IF InsideGenesis(point)
        THEN result.tag = "AddressedFractalCoordinate"
        ELSE IsNone(result)

\* a point of the bounding box just outside the left side was refused at
\* max_depth 0
C11_Witness ==
    /\ pc = "done"
    /\ max_depth = 0
    /\ point.y > -LatticeN
    /\ point.y = 2 * LatticeN - 3 * Abs(point.x) + 1
    /\ IsNone(result)

\* twice the signed area of (a, b, p): its sign says on which side of the
\* line through a and b the point p lies
Orient(a, b, p) == (b.x - a.x) * (p.y - a.y) - (b.y - a.y) * (p.x - a.x)

\* p lies in the closed triangle t: on no side of it strictly outside
Contains(t, p) ==
    LET s1 == Orient(t.v[1], t.v[2], p)
        s2 == Orient(t.v[2], t.v[3], p)
        s3 == Orient(t.v[3], t.v[1], p)
    IN  \/ s1 >= 0 /\ s2 >= 0 /\ s3 >= 0
        \/ s1 <= 0 /\ s2 <= 0 /\ s3 <= 0

\* the valid coordinates of depth at most max_depth whose resolved triangle
\* has the located point as the mean of its vertices
CentroidOwners ==
    {c \in AddressedCoords(MaxDepth) :
        /\ c.depth <= max_depth
        /\ IsMeanOfVertices(point, get_vertices_for_addressed_coord(c))}

\* C12: for every valid coordinate c, solid or void, and every max_depth >=
\* depth(c), locating the centroid of resolve(c) returns a coordinate whose
\* resolved triangle contains that point.
C12_LocateResolveConsistent ==
    (pc = "done" /\ CentroidOwners # {}) =>
        /\ IsCoord(result)
        /\ Contains(get_vertices_for_addressed_coord(result), point)

\* the centroid of a depth-2 region reached through a void was located one
\* level deeper than the region
C12_Witness ==
    /\ pc = "done"
    /\ max_depth = 3
    /\ \E c \in CentroidOwners : c.depth = 2 /\ c.path[1] = 3 /\ c.path[2] # 3
    /\ IsCoord(result)
    /\ result.depth = 3

-----------------------------------------------------------------------------
(* Claims about the boundary test (SpecResolve) *)

\* C13: is_on_boundary returns False whenever the coordinate is a void path
\* or its depth differs from max_depth, smaller or larger; the result is
\* always a boolean.
C13_OffDepthIsFalse ==
    call = "is_on_boundary" =>
        /\ result.tag = "bool"
        /\ (is_void_path(coord) \/ coord.depth # args.max_depth) =>
               result = PyBool(FALSE)

-----------------------------------------------------------------------------
(* Claims about the relationship queries (Spec).  A query's argument is the
   coordinate the caller holds before the step and its result is what the
   caller holds after it, so each claim is a property of the steps. *)

\* a and b have the same parent prefix and differ in the last digit
SameParentOtherDigit(a, b) ==
    /\ a.depth = b.depth
    /\ Len(a.path) = Len(b.path)
    /\ \A i \in 1..(Len(a.path) - 1) : a.path[i] = b.path[i]
    /\ a.path[Len(a.path)] # b.path[Len(b.path)]

C16_ParentDropsLastDigit ==
    [][call' = "get_parent" =>
          /\ IsNone(result') <=> coord.depth = 0
          /\ coord.depth >= 1 =>
                /\ IsCoord(result')
                /\ result'.depth = coord.depth - 1
                /\ Len(result'.path) = Len(coord.path) - 1
                /\ \A i \in DOMAIN result'.path : result'.path[i] = coord.path[i]
          /\ (call = "get_children" /\ result.items # <<>>) =>
                /\ coord \in Range(result.items)
                /\ \A k \in DOMAIN result.items :
                      /\ result.items[k].depth = result'.depth + 1
                      /\ result.items[k].path = Append(result'.path, k - 1)]_vars

\* the parent of a deepest solid coordinate was returned
C16_Witness ==
    /\ call = "get_parent"
    /\ IsCoord(result)
    /\ result.depth = MaxDepth - 1
    /\ is_solid_path(result)
    /\ coord = result

\* C17: solid_children(coord, max_depth_limit) returns exactly the three
\* coordinates of depth coord.depth + 1 that append 0, 1 and 2 (never 3) to
\* coord.path when no limit is given or coord.depth < max_depth_limit, and
\* the empty list when coord.depth >= max_depth_limit; no child returned is
\* deeper than the limit.
C17_ChildrenAppendSolidDigits ==
    [][call' = "get_children" =>
          LET limit == args'.max_depth_limit
          IN  /\ IF IsNone(limit) \/ coord.depth < limit.val
                 THEN /\ Len(result'.items) = 3
                      /\ \A k \in 1..3 :
                            /\ result'.items[k].depth = coord.depth + 1
                            /\ result'.items[k].path = coord.path \o <<k - 1>>
                 ELSE result'.items = <<>>
              /\ ~IsNone(limit) =>
                    \A k \in DOMAIN result'.items :
                        result'.items[k].depth <= limit.val]_vars

\* the children of a coordinate one level above the limit were returned
C17_Witness ==
    /\ call = "get_children"
    /\ ~IsNone(args.max_depth_limit)
    /\ Len(result.items) = 3
    /\ coord \in Range(result.items)
    /\ coord.depth = args.max_depth_limit.val
    /\ coord.depth >= 2

\* C18: solid_siblings(coord) is empty for the depth-0 coordinate; for a
\* valid coordinate of depth >= 1 it is exactly the coordinates with the
\* same parent prefix whose last digit is in {0,1,2} and differs from
\* coord's (two when coord ends in a solid digit, three when it ends in 3);
\* it never contains coord or a coordinate ending in 3.
C18_SiblingsAreOtherSolidDigits ==
    [][call' = "get_siblings" =>
          IF coord.depth = 0 THEN result'.items = <<>>
          ELSE LET last == coord.path[Len(coord.path)]
                   sibs == Range(result'.items)
               IN  /\ Len(result'.items) = IF last = 3 THEN 3 ELSE 2
                   /\ Cardinality(sibs) = Len(result'.items)
                   /\ \A n \in sibs :
                         /\ SameParentOtherDigit(n, coord)
                         /\ n.path[Len(n.path)] \in {0, 1, 2}
                   /\ \A digit \in {0, 1, 2} \ {last} :
                         \E n \in sibs : n.path[Len(n.path)] = digit]_vars

\* the three solid siblings of a region that ends in the void digit were
\* returned
C18_Witness ==
    /\ call = "get_siblings"
    /\ Len(result.items) = 3
    /\ coord \in Range(result.items)
    /\ coord.depth >= 2

-----------------------------------------------------------------------------
(* Claim about routes and void regions (SpecRoute) *)

\* the solid coordinates that can be reached from those in S by steps of
\* the neighbour relation through solid coordinates only
RECURSIVE SolidReach(_)
SolidReach(S) ==
    LET more == S \cup {n \in RouteNodes :
                          /\ is_solid_path(n)
                          /\ \E m \in S : n \in args.get_neighbors[m]}
    IN  IF more = S THEN S ELSE SolidReach(more)

\* C19: find_path_dijkstra returns None whenever start or end is a void
\* path; for any neighbour relation a path it returns starts at start, ends
\* at end, links each consecutive pair by the neighbour function and holds
\* no void-path coordinate; so a destination that can be reached only
\* through a void is reported unreachable.
C19_RoutesExcludeVoids ==
    (pc = "done" /\ call = "find_path_dijkstra") =>
        /\ (is_void_path(args.start_coord) \/ is_void_path(args.end_coord)) =>
              IsNone(result)
        /\ ~IsNone(result) =>
              /\ result.tag = "list"
              /\ result.items # <<>>
              /\ result.items[1] = args.start_coord
              /\ result.items[Len(result.items)] = args.end_coord
              /\ \A i \in 1..(Len(result.items) - 1) :
                    result.items[i + 1] \in args.get_neighbors[result.items[i]]
              /\ \A i \in DOMAIN result.items : is_solid_path(result.items[i])
        /\ args.end_coord \notin SolidReach({args.start_coord}) => IsNone(result)

\* two solid coordinates joined by the relation through the void only, and
\* no route was returned
C19_Witness ==
    /\ pc = "done"
    /\ call = "find_path_dijkstra"
    /\ IsNone(args.max_depth_for_pathfinding)
    /\ is_solid_path(args.start_coord)
    /\ is_solid_path(args.end_coord)
    /\ \E v \in RouteNodes :
          /\ is_void_path(v)
          /\ v \in args.get_neighbors[args.start_coord]
          /\ args.end_coord \in args.get_neighbors[v]
    /\ args.end_coord \notin SolidReach({args.start_coord})
    /\ IsNone(result)

-----------------------------------------------------------------------------
(* Claim about the locator's termination (SpecLocateFair) *)

\* none of the four subregions of the region the digits so far name
\* contains the point
MatchesNoSubregion ==
    \A j \in 1..4 : ~Contains(Subregions(path_elements)[j], point)

\* what holds of the locator at every moment
LocateBounded ==
    /\ d <= max_depth
    /\ Len(path_elements) <= d
    /\ pc = "done" =>
          /\ IsCoord(result) =>
                /\ result.depth <= max_depth
                /\ result.depth < max_depth =>
                      (d = result.depth + 1 /\ MatchesNoSubregion)
          /\ (max_depth = 0 /\ InsideGenesis(point)) =>
                (IsCoord(result) /\ CoordEq(result, GenesisCoord))

\* C20: locate always terminates, after at most max_depth subdivision
\* levels, with a coordinate of depth at most max_depth; the depth is below
\* max_depth only if at some level the point matched none of the four
\* subregions; with max_depth 0 it returns the Genesis coordinate for every
\* point inside the Genesis Triangle.
C20_LocateTerminates == []LocateBounded /\ <>(pc = "done")

\* the loop ran its max_depth levels and the call returned a coordinate of
\* that depth
C20_Witness ==
    /\ pc = "done"
    /\ max_depth = MaxDepth
    /\ d = max_depth
    /\ IsCoord(result)
    /\ result.depth = max_depth
    /\ is_solid_path(result)

-----------------------------------------------------------------------------
(* Claim about locating a centroid (SpecLocate) *)

\* the solid coordinates whose centroid, as fractal_to_cartesian gives it,
\* is the located point
SolidCentroidOwners ==
    {c \in SolidCoords(MaxDepth) : fractal_to_cartesian(c) = point}

\* C21: for every solid coordinate c, locating the centroid of c's triangle
\* with max_depth = depth(c) returns exactly c, and with max_depth =
\* depth(c) + 1 returns c extended by the void digit 3.
C21_CentroidLocatesItself ==
    pc = "done" =>
        \A c \in SolidCentroidOwners :
            /\ max_depth = c.depth =>
                  (IsCoord(result) /\ CoordEq(result, c))
            /\ max_depth = c.depth + 1 =>
                  /\ IsCoord(result)
                  /\ result.depth = c.depth + 1
                  /\ result.path = Append(c.path, 3)

\* the centroid of a depth-2 solid region was located one level deeper and
\* fell into the region's central void
C21_Witness ==
    /\ pc = "done"
    /\ max_depth = 3
    /\ \E c \in SolidCentroidOwners : c.depth = 2 /\ c.path[1] # c.path[2]
    /\ IsCoord(result)
    /\ result.path[3] = 3

-----------------------------------------------------------------------------
(* Claim about decoding with void paths allowed (SpecCodec) *)

\* C22: with void paths allowed, from_string never raises, whatever the
\* string: it returns a valid addressed coordinate or None; a string with
\* the right markers and digit count that holds a digit above 3 (such as
\* "d1p4") returns None, not an error.
C22_AllowVoidNeverRaises ==
    (call = "string_to_coord" /\ args.allow_void_paths) =>
        /\ ~IsRaised(result)
        /\ \/ IsNone(result)
           \/ /\ result.tag = "AddressedFractalCoordinate"
              /\ WellFormed(result)
        /\ (MatchesGrammar(text)
               /\ \E i \in DOMAIN GrammarDigits(text) : GrammarDigits(text)[i] > 3) =>
              IsNone(result)

\* the string "d1p4" was decoded to None
C22_Witness ==
    /\ call = "string_to_coord"
    /\ args.allow_void_paths
    /\ text = <<"d", "1", "p", "4">>
    /\ IsNone(result)

-----------------------------------------------------------------------------
(* Claim about routing over the engine's own neighbours (SpecRouteEngine) *)

\* two coordinates of the same depth >= 1 with the same parent prefix
SameParent(a, b) ==
    /\ a.depth = b.depth
    /\ a.depth >= 1
    /\ \A i \in 1..(a.depth - 1) : a.path[i] = b.path[i]

\* max_depth_for_pathfinding leaves coordinates of depth n in play
LimitAdmits(n) ==
    \/ IsNone(args.max_depth_for_pathfinding)
    \/ args.max_depth_for_pathfinding.val >= n

\* what the path finder has returned when it is done
RouteIsSiblingHop ==
    (pc = "done" /\ call = "find_path_dijkstra"
        /\ is_solid_path(args.start_coord) /\ is_solid_path(args.end_coord)) =>
        IF args.start_coord = args.end_coord
        THEN result = PyList(<<args.start_coord>>)
        ELSE IF SameParent(args.start_coord, args.end_coord)
                   /\ LimitAdmits(args.start_coord.depth)
        THEN result = PyList(<<args.start_coord, args.end_coord>>)
        ELSE IsNone(result)

-----------------------------------------------------------------------------
(* Claim about locating one point at two successive depths (SpecLocate) *)

IsPrefix(s, t) == Len(s) <= Len(t) /\ SubSeq(t, 1, Len(s)) = s

\* C27: for every point inside the Genesis Triad and every k >= 0, the path
\* of cartesian_to_fractal(point, k) is a prefix of the path of
\* cartesian_to_fractal(point, k + 1): raising max_depth only appends digits
\* and never changes a digit already chosen.  The call that returned is the
\* one with max_depth = k + 1.
C27_DeeperLocateExtendsPath ==
    (pc = "done" /\ max_depth > 0 /\ InsideGenesis(point)) =>
        LET shallower == cartesian_to_fractal(point, max_depth - 1)
        IN  /\ IsCoord(shallower)
            /\ IsCoord(result)
            /\ IsPrefix(shallower.path, result.path)

\* a point on the edge the first child shares with the void was located at
\* depth 2: its first digit is the child's at depth 1 as well
C27_Witness ==
    /\ pc = "done"
    /\ max_depth = 2
    /\ IsCoord(result)
    /\ result.depth = 2
    /\ LocateDigitVoidFirst(point, GENESIS_TRIAD_VERTICES) = 3
    /\ cartesian_to_fractal(point, 1).path = <<0>>

-----------------------------------------------------------------------------
(* Claim about the two resolvers (SpecResolve) *)

\* C30: the solid-only resolver and the addressed resolver agree on every
\* solid path: for a valid coordinate with digits in {0,1,2},
\* get_triangle_for_fractal_coord and get_vertices_for_addressed_coord
\* return identical triangles; for a coordinate whose path contains the
\* digit 3 the solid-only resolver returns None while the addressed
\* resolver returns the void-descended triangle.
C30_ResolversAgreeOnSolidPaths ==
    /\ call = "get_triangle_for_fractal_coord" =>
          IF is_solid_path(coord)
          THEN /\ result.tag = "TriangleVertices"
               /\ result = get_vertices_for_addressed_coord(coord)
          ELSE /\ IsNone(result)
               /\ get_vertices_for_addressed_coord(coord) = RegionOfPath(coord.path)
    /\ (call = "get_vertices_for_addressed_coord" /\ is_solid_path(coord)) =>
          result = get_triangle_for_fractal_coord(coord)

\* the solid resolver was asked about a region inside a void
C30_Witness ==
    /\ call = "get_triangle_for_fractal_coord"
    /\ coord.depth = 3
    /\ coord.path = <<1, 3, 0>>
    /\ IsNone(result)
    /\ get_vertices_for_addressed_coord(coord).tag = "TriangleVertices"

-----------------------------------------------------------------------------
(* Claims about the transaction pool (SpecPool) *)

\* the transactions in the pool, as get_pending_transactions lists them
Pooled == Range(_transactions)

\* the pool holds at most max_pool_size transactions, no two with one id
PoolWithinLimit ==
    /\ ~IsNone(max_pool_size) =>
           Cardinality(DOMAIN _transactions) <= max_pool_size.val
    /\ \A tx_id \in DOMAIN _transactions : _transactions[tx_id].id = tx_id
    /\ \A a, b \in Pooled : a.id = b.id => a = b

\* the reasons add_transaction has to reject tx, in the state before the call
MustReject(tx) ==
    \/ tx.tag # "Transaction"
    \/ tx.id \in DOMAIN _transactions
    \/ tx.amount < 0
    \/ tx.fee < 0
    \/ tx.nonce < 0
    \/ /\ ~IsNone(max_pool_size)
       /\ Cardinality(DOMAIN _transactions) >= max_pool_size.val

\* a rejected add returns False and changes nothing; any other add returns
\* True and puts the transaction in the pool
AddRejectsOrStores ==
    call' = "add_transaction" =>
        IF MustReject(args'.tx)
        THEN /\ result' = PyBool(FALSE)
             /\ UNCHANGED poolVars
        ELSE /\ result' = PyBool(TRUE)
             /\ DOMAIN _transactions' = DOMAIN _transactions \cup {args'.tx.id}
             /\ _transactions'[args'.tx.id] = args'.tx
             /\ \A tx_id \in DOMAIN _transactions :
                    _transactions'[tx_id] = _transactions[tx_id]

\* C24: for a TransactionPool created with max_pool_size = N, after any
\* sequence of add_transaction, remove_transaction and clear_pool the pool
\* holds at most N transactions and no two with the same id; an add that is
\* rejected (duplicate id, negative amount, fee or nonce, or pool already
\* holding N) returns False and leaves the pool unchanged, and an add
\* succeeds again as soon as a removal has freed a slot.
C24_PoolRespectsLimit == []PoolWithinLimit /\ [][AddRejectsOrStores]_vars

\* a full pool turned away a valid transaction it did not hold
C24_Witness ==
    /\ call = "add_transaction"
    /\ result = PyBool(FALSE)
    /\ max_pool_size = PyInt(MaxPoolSize)
    /\ Cardinality(DOMAIN _transactions) = MaxPoolSize
    /\ args.tx.tag = "Transaction"
    /\ args.tx.id \notin DOMAIN _transactions
    /\ args.tx.amount >= 0 /\ args.tx.fee >= 0 /\ args.tx.nonce >= 0

\* the pooled transactions addressed to dest
PooledFor(dest) == {tx \in Pooled : tx.receiver_coord = dest}

\* C28: after any sequence of add_transaction, remove_transaction and
\* clear_pool, the destination index agrees exactly with the pool's
\* contents: a transaction id is listed under destination d if and only if
\* that transaction is in the pool and its receiver_coord is d (None
\* included), no destination is mapped to an empty set, and
\* get_transactions_by_destination(d) returns exactly the pooled
\* transactions addressed to d.
C28_DestinationIndexAgrees ==
    /\ \A dest \in DOMAIN _destination_coord_map :
           _destination_coord_map[dest] # {}
    /\ \A dest \in PoolReceivers \cup PoolSenders \cup DOMAIN _destination_coord_map :
           (IF dest \in DOMAIN _destination_coord_map
            THEN _destination_coord_map[dest] ELSE {})
               = {tx.id : tx \in PooledFor(dest)}
    /\ call = "get_transactions_by_destination" =>
           /\ result.tag = "list"
           /\ Range(result.items) = PooledFor(args.destination_coord)
           /\ Len(result.items) = Cardinality(PooledFor(args.destination_coord))

\* the transactions without a receiver were asked for after one of the two
\* pooled ones had been removed and the other destinations had emptied
C28_Witness ==
    /\ call = "get_transactions_by_destination"
    /\ IsNone(args.destination_coord)
    /\ Len(result.items) = 1
    /\ DOMAIN _destination_coord_map = {None}

-----------------------------------------------------------------------------
(* Claims about the mining pool (SpecMining) *)

RatSub(a, b) == RatAdd(a, RatMul(Rat(-1, 1), b))

\* get_miner_payouts: payouts.get(miner_id, 0.0)
get_miner_payouts(paid, miner_id) ==
    IF miner_id \in DOMAIN paid THEN paid[miner_id] ELSE Zero

\* the round is empty: no shares, total weight 0, every miner's weight 0
RoundIsReset ==
    /\ current_round_shares' = <<>>
    /\ total_weighted_shares_this_round' = Zero
    /\ DOMAIN miners' = DOMAIN miners
    /\ \A miner_id \in DOMAIN miners' :
           miners'[miner_id].total_weighted_shares = Zero

\* what one call of block_found_by_pool does to the payouts and the round
BlockFoundPaysProportionally ==
    call' = "block_found_by_pool" =>
        LET block_reward ==
                calculate_block_reward(args'.block_fractal_coord.depth)
            total == total_weighted_shares_this_round
        IN  /\ IF RatLess(Zero, total)
               THEN /\ \A miner_id \in DOMAIN miners :
                           RatSub(get_miner_payouts(payouts', miner_id),
                                  get_miner_payouts(payouts, miner_id))
                             = RatMul(block_reward,
                                      RatDiv(miners[miner_id].total_weighted_shares,
                                             total))
                    /\ RatSub(RatSum(payouts', DOMAIN payouts'),
                              RatSum(payouts, DOMAIN payouts)) = block_reward
               ELSE payouts' = payouts
            /\ RoundIsReset

\* no call takes anything back from a payout
PayoutsPersist ==
    \A miner_id \in DOMAIN payouts :
        /\ miner_id \in DOMAIN payouts'
        /\ ~RatLess(payouts'[miner_id], payouts[miner_id])
        /\ call' # "block_found_by_pool" => payouts'[miner_id] = payouts[miner_id]

\* C25: when block_found_by_pool is called in a round whose total share
\* weight is positive, each miner's payout grows by block_reward x (that
\* miner's round weight / total round weight), so the payouts credited for
\* the round sum to the block reward; afterwards the round is reset (no
\* shares, total weight 0, every miner's round weight 0) while payouts
\* persist and accumulate across rounds; when the total weight is 0 nobody
\* is credited and the round is still reset.
C25_BlockRewardIsShared ==
    [][BlockFoundPaysProportionally /\ PayoutsPersist]_vars

\* a second block was paid out: both miners hold payouts from two rounds
\* and the round is empty again
C25_Witness ==
    /\ call = "block_found_by_pool"
    /\ DOMAIN payouts = MinerIds
    /\ payouts["miner1"] # payouts["miner2"]
    /\ RatLess(Rat(55, 1), RatSum(payouts, DOMAIN payouts))
    /\ current_round_shares = <<>>
    /\ total_weighted_shares_this_round = Zero

\* the sum of share_weight over a list of shares
RECURSIVE ShareWeightSum(_)
ShareWeightSum(shares) ==
    IF shares = <<>> THEN Zero
    ELSE RatAdd(Head(shares).share_weight, ShareWeightSum(Tail(shares)))

\* the three tallies of the round agree
RoundTalliesAgree ==
    /\ total_weighted_shares_this_round = ShareWeightSum(current_round_shares)
    /\ total_weighted_shares_this_round =
           RatSum([miner_id \in DOMAIN miners |->
                      miners[miner_id].total_weighted_shares], DOMAIN miners)

\* a share from an unregistered miner, or with a hash that lacks the pool's
\* prefix, is turned away and changes no tally
RejectedShareChangesNothing ==
    (/\ call' = "submit_share"
     /\ \/ args'.miner_id \notin DOMAIN miners
        \/ ~StartsWith(args'.mined_hash, DEFAULT_POOL_SHARE_DIFFICULTY_PREFIX))
        => /\ result' = PyBool(FALSE)
           /\ UNCHANGED miningVars

\* registering a miner the pool knows changes nothing
ReRegisteringKeepsWeight ==
    (call' = "register_miner" /\ args'.miner_id \in DOMAIN miners)
        => UNCHANGED miningVars

\* C29: after any sequence of register_miner, submit_share and
\* block_found_by_pool, total_weighted_shares_this_round equals the sum of
\* share_weight over current_round_shares and equals the sum of
\* total_weighted_shares over all registered miners; a rejected share
\* (unregistered miner, or hash not starting with the pool's prefix)
\* changes none of these, and re-registering an existing miner does not
\* reset that miner's round weight.
C29_RoundTalliesAgree ==
    /\ []RoundTalliesAgree
    /\ [][RejectedShareChangesNothing /\ ReRegisteringKeepsWeight]_vars

\* a miner with shares in the round registered again
C29_Witness ==
    /\ call = "register_miner"
    /\ args.miner_id \in DOMAIN miners
    /\ RatLess(Zero, miners[args.miner_id].total_weighted_shares)
    /\ Len(current_round_shares) = MaxRoundShares

-----------------------------------------------------------------------------
(* Claim about Merkle proofs (SpecMerkle) *)

\* C26: for every non-empty list of leaf hashes and every leaf in it,
\* generate_merkle_proof on the tree built by build_merkle_tree_from_hashes
\* returns a proof that verify_merkle_proof accepts against that tree's root
\* (including odd leaf counts, where the last node is paired with itself,
\* and a single-leaf tree, where the proof is empty); for a hash that is not
\* a leaf of the tree generate_merkle_proof returns None.
C26_ProofsVerify ==
    /\ (call = "generate_merkle_proof" /\ args.data_hashes # <<>>) =>
          IF args.leaf_hash \in Range(args.data_hashes)
          THEN /\ proof.tag = "list"
               /\ verify_merkle_proof(args.leaf_hash, proof.items,
                                      tree_root_node.value) = PyBool(TRUE)
               /\ Len(args.data_hashes) = 1 => proof.items = <<>>
          ELSE IsNone(proof)
    /\ call = "verify_merkle_proof" => result = PyBool(TRUE)

\* the proof of the last of three leaves, whose node was paired with itself,
\* was accepted
C26_Witness ==
    /\ call = "verify_merkle_proof"
    /\ args.data_hashes = <<(<<"a">>), (<<"b">>), (<<"c">>)>>
    /\ args.leaf_hash = <<"c">>
    /\ Len(proof.items) = 2
    /\ proof.items[1] = <<(<<"c">>), "right">>
    /\ result = PyBool(TRUE)

====
